---- MODULE Spec2Model ----
(***************************************************************************)
(* A model of the playlist matcher: the similarity functions and the       *)
(* composite score of src/src/matching/genre-matcher.ts, the matching      *)
(* orchestrator (matchSongsToPlaylists, autoOrganize) with its profile     *)
(* cache, and the callers that apply matches and record them in the match  *)
(* history (the REST endpoints and CronRunner.runJob).                     *)
(*                                                                         *)
(* Numbers.  The code computes in IEEE doubles.  The model computes the    *)
(* same expressions exactly, in fixed point: a sub-score x is the integer  *)
(* x * Unit, a rounded score ("2 decimal places") is the integer number of *)
(* hundredths, and log10 is tabulated to 4 decimal places.  Unit is chosen *)
(* so that every division the bounded inputs cause is exact.               *)
(***************************************************************************)
EXTENDS Integers, Sequences, FiniteSets, TLC

VARIABLES
    playlistTracks,   \* provider: playlist id -> sequence of track ids
    profileCache,     \* genre-matcher.ts profileCache: playlist id -> entry
    now,              \* Date.now(), in model time units
    matchHistory,     \* file match-history store: user id -> sequence of records
    usePostgres,      \* the PostgreSQL stores are used (DATABASE_URL is set)
    match_history,    \* PostgreSQL table match_history: a set of rows
    lastRun,          \* the last operation: its inputs, its result, its calls
    scoreTrack,       \* first input of the pure function under check
    scoreProfile,     \* second input of the pure function under check
    scoreResult,      \* result of the function on the two inputs
    calls,            \* the asynchronous calls in progress: position and locals
    jobs,             \* scheduler.json: user id -> scheduled job
    oauth_states      \* PostgreSQL table oauth_states: a set of rows

vars == <<playlistTracks, profileCache, now, matchHistory, lastRun,
          scoreTrack, scoreProfile, scoreResult, usePostgres, match_history,
          calls, jobs, oauth_states>>

(***************************************************************************)
(* Arithmetic                                                              *)
(***************************************************************************)

\* One whole (1.0) in fixed-point units: 144 covers the denominators
\* maxFreq * trackGenres.length, 20000 the log10 table and the factor 1/2.
LogScale == 10000
Unit == 144 * 2 * LogScale

\* avgPopularity is kept in 1/PopScale popularity points (a mean of up to
\* 6 integers is then an integer).
PopScale == 60

Abs(x) == IF x < 0 THEN -x ELSE x
Min(a, b) == IF a <= b THEN a ELSE b
Max(a, b) == IF a >= b THEN a ELSE b

\* Math.log10(n) * LogScale for n = matchCount + 1, rounded to nearest.
Log10Table == <<0, 3010, 4771, 6021, 6990, 7782, 8451, 9031>>
Log10(n) == Log10Table[n]

\* Math.round(x * 100) for a non-negative x given in Unit units: the number
\* of hundredths, halves rounded up.
Round2(x) == (100 * x + (Unit \div 2)) \div Unit

Range(s) == {s[i] : i \in DOMAIN s}

RECURSIVE SumSeq(_)
SumSeq(s) == IF s = <<>> THEN 0 ELSE s[1] + SumSeq(Tail(s))

\* [...new Set(s)]: the distinct elements of s in order of first occurrence.
RECURSIVE Dedup(_)
Dedup(s) ==
    IF s = <<>> THEN <<>>
    ELSE LET r == Dedup(SubSeq(s, 1, Len(s) - 1))
             x == s[Len(s)]
         IN  IF x \in Range(r) THEN r ELSE Append(r, x)

RECURSIVE Flatten(_)
Flatten(ss) == IF ss = <<>> THEN <<>> ELSE ss[1] \o Flatten(Tail(ss))

(***************************************************************************)
(* Similarity functions                                                    *)
(***************************************************************************)

\* jaccardSimilarity_OverFirst divides by the size of the first set, where
\* the code divides by the size of the union.
jaccardSimilarity_OverFirst(setA, setB) ==
    IF setA = {} THEN 0
    ELSE (Cardinality(setA \cap setB) * Unit) \div Cardinality(setA)

jaccardSimilarity(setA, setB) ==
    IF setA = {} /\ setB = {} THEN 0
    ELSE (Cardinality(setA \cap setB) * Unit) \div Cardinality(setA \cup setB)

\* artistOverlapScore_NoBonus leaves out the 0.5 the code adds to the
\* fraction of matching artists.
artistOverlapScore_NoBonus(trackArtistIds, playlistArtistIds) ==
    IF Len(trackArtistIds) = 0 \/ playlistArtistIds = {} THEN 0
    ELSE Min(Unit, (Len(SelectSeq(trackArtistIds, LAMBDA id : id \in playlistArtistIds))
                    * Unit) \div Len(trackArtistIds))

artistOverlapScore(trackArtistIds, playlistArtistIds) ==
    IF Len(trackArtistIds) = 0 \/ playlistArtistIds = {} THEN 0
    ELSE LET matchingArtists ==
                 SelectSeq(trackArtistIds, LAMBDA id : id \in playlistArtistIds)
         IN  IF Len(matchingArtists) > 0
             THEN Min(Unit, (Len(matchingArtists) * Unit) \div Len(trackArtistIds)
                            + Unit \div 2)
             ELSE 0

genreOverlapScore(trackGenres, playlistGenres) ==
    IF Len(trackGenres) = 0 \/ playlistGenres = {} THEN 0
    ELSE jaccardSimilarity(Range(trackGenres), playlistGenres)

\* playlistGenreFreq is a function genre -> count (the Map of the code).
weightedGenreScore(trackGenres, playlistGenreFreq) ==
    IF Len(trackGenres) = 0 \/ DOMAIN playlistGenreFreq = {} THEN 0
    ELSE LET maxFreq == CHOOSE m \in Range(playlistGenreFreq) :
                            \A f \in Range(playlistGenreFreq) : f <= m
             matched == SelectSeq(trackGenres,
                                  LAMBDA g : g \in DOMAIN playlistGenreFreq)
             freqSum == SumSeq([i \in DOMAIN matched |-> playlistGenreFreq[matched[i]]])
             matchCount == Len(matched)
         IN  IF maxFreq = 0 THEN 0
             ELSE IF matchCount = 0 THEN 0
             ELSE \* (totalScore / trackGenres.length) * (1 + log10(matchCount + 1) / 2)
                  (freqSum * (Unit \div (2 * LogScale))
                           * (2 * LogScale + Log10(matchCount + 1)))
                  \div (maxFreq * Len(trackGenres))

\* popularitySimilarity_Signed takes the signed difference, where the code
\* takes its absolute value.
popularitySimilarity_Signed(trackPopularity, playlistAvgPopularity) ==
    LET diff == trackPopularity * PopScale - playlistAvgPopularity
    IN  Max(0, Unit - diff * (Unit \div (40 * PopScale)))

popularitySimilarity(trackPopularity, playlistAvgPopularity) ==
    LET diff == Abs(trackPopularity * PopScale - playlistAvgPopularity)
    IN  Max(0, Unit - diff * (Unit \div (40 * PopScale)))

(***************************************************************************)
(* Composite score                                                         *)
(***************************************************************************)

\* calculateMatchScore with the weighted sum taken over the rounded
\* sub-scores, the variant the rounding property (C5) rules out.
calculateMatchScore_SumOfRounded(track, playlist) ==
    LET a == Round2(artistOverlapScore(track.artistIds, playlist.artistIds))
        g == Round2(genreOverlapScore(track.genres, DOMAIN playlist.genres))
        w == Round2(weightedGenreScore(track.genres, playlist.genres))
        p == Round2(popularitySimilarity(track.popularity, playlist.avgPopularity))
    IN  [score |-> (35 * a + 25 * g + 25 * w + 15 * p + 50) \div 100,
         breakdown |-> [artistOverlap |-> a, genreOverlap |-> g,
                        weightedGenreScore |-> w, popularitySimilarity |-> p]]

calculateMatchScore(track, playlist) ==
    LET artistScore == artistOverlapScore(track.artistIds, playlist.artistIds)
        genreScore == genreOverlapScore(track.genres, DOMAIN playlist.genres)
        weightedGenre == weightedGenreScore(track.genres, playlist.genres)
        popSimilarity == popularitySimilarity(track.popularity, playlist.avgPopularity)
        \* score * 100, in Unit units
        score100 == 35 * artistScore + 25 * genreScore
                    + 25 * weightedGenre + 15 * popSimilarity
    IN  [score |-> (score100 + (Unit \div 2)) \div Unit,
         breakdown |-> [artistOverlap |-> Round2(artistScore),
                        genreOverlap |-> Round2(genreScore),
                        weightedGenreScore |-> Round2(weightedGenre),
                        popularitySimilarity |-> Round2(popSimilarity)]]

(***************************************************************************)
(* The metadata provider's catalog: users, artists, tracks, playlists      *)
(***************************************************************************)

Users == {"u1", "u2"}
Artists == {"a1", "a2", "a3", "a4"}
Playlists == {"p1", "p2", "p3", "p4"}
Tracks == {"t1", "t2", "t3", "s1", "s2", "s3"}

\* GET /artists: each artist's genres (a4 has none).
ArtistGenres ==
    [a \in Artists |->
        CASE a = "a1" -> <<"rock", "metal">>
          [] a = "a2" -> <<"rock">>
          [] a = "a3" -> <<"jazz">>
          [] OTHER    -> <<>>]

\* A SpotifyTrack: its artists and its popularity (0..100).  Both artists of
\* s3 carry the genre rock.
TrackArtists ==
    [t \in Tracks |->
        CASE t = "t1" -> <<"a1">>
          [] t = "t2" -> <<"a2", "a3">>
          [] t = "t3" -> <<"a4">>
          [] t = "s1" -> <<"a1">>
          [] t = "s3" -> <<"a1", "a2">>
          [] OTHER    -> <<"a3">>]

TrackPopularity ==
    [t \in Tracks |->
        CASE t = "t1" -> 50
          [] t = "t2" -> 60
          [] t = "t3" -> 50
          [] t = "s1" -> 50
          [] t = "s3" -> 40
          [] OTHER    -> 70]

TrackUri(t) == <<"spotify:track", t>>
TrackName(t) == <<"name", t>>
PlaylistName(p) == <<"name", p>>

\* GET /me/playlists for each user, in the provider's order: u1 follows p3,
\* which u2 owns; p4 is u1's and starts empty.
UserPlaylists ==
    [u \in Users |-> IF u = "u1" THEN <<"p1", "p2", "p3", "p4">> ELSE <<"p3">>]

PlaylistOwner ==
    [p \in Playlists |-> IF p = "p3" THEN "u2" ELSE "u1"]

\* GET /me/tracks for each user, most recent first.
LikedSongs ==
    [u \in Users |-> IF u = "u1" THEN <<"t1", "t3", "t2">> ELSE <<"t2">>]

InitialPlaylistTracks ==
    [p \in Playlists |->
        CASE p = "p1" -> <<"s1">>
          [] p = "p2" -> <<"s2">>
          [] p = "p3" -> <<"s2">>
          [] OTHER    -> <<>>]

\* Bounds of the model.
MaxLiked == 3
MaxPlaylistTracks == 3
MaxTotalTracks == 5
MaxTime == 2
MaxFreq == 2

\* Program constants.  Time is counted in hours.
CACHE_TTL_MS == 1
SampleSize == 50
CronPlaylistLimit == 50
CronThreshold == 15

Thresholds == {15, 80}
NoEntry == [present |-> FALSE]

\* No asynchronous call is in progress, no job is scheduled and no OAuth
\* state is saved.
NoAsync == calls = <<>> /\ jobs = <<>> /\ oauth_states = {}

getLikedSongs(u, limit) ==
    SubSeq(LikedSongs[u], 1, Min(limit, Len(LikedSongs[u])))

getUserPlaylists(u, limit, contents) ==
    LET ids == SubSeq(UserPlaylists[u], 1, Min(limit, Len(UserPlaylists[u])))
    IN  [i \in DOMAIN ids |->
            [id |-> ids[i], name |-> PlaylistName(ids[i]),
             owner |-> PlaylistOwner[ids[i]], total |-> Len(contents[ids[i]])]]

getPlaylistTracks(p, limit, contents) ==
    SubSeq(contents[p], 1, Min(limit, Len(contents[p])))

(***************************************************************************)
(* GenreMatcher                                                            *)
(***************************************************************************)

\* TrackWithGenres: the track with the de-duplicated genres of its artists.
EnrichedTrack ==
    [t \in Tracks |->
        LET trackArtists == TrackArtists[t]
        IN  [id |-> t,
             uri |-> TrackUri(t),
             name |-> TrackName(t),
             artistIds |-> trackArtists,
             genres |-> Dedup(Flatten([k \in DOMAIN trackArtists |->
                                          ArtistGenres[trackArtists[k]]])),
             popularity |-> TrackPopularity[t]]]

enrichTracksWithGenres(tracks) ==
    [i \in DOMAIN tracks |-> EnrichedTrack[tracks[i]]]

\* The genre -> count table of lines 253-264: one increment per track and
\* per genre of the track's (de-duplicated) genre list.
\* GenreFreq_PerArtist counts a genre once per artist of the track that
\* carries it, where the code counts it once per track.
GenreFreq_PerArtist(enrichedTracks) ==
    LET all == UNION {Range(enrichedTracks[i].genres) : i \in DOMAIN enrichedTracks}
    IN  [g \in all |->
            SumSeq([i \in DOMAIN enrichedTracks |->
                       Cardinality({k \in DOMAIN enrichedTracks[i].artistIds :
                           g \in Range(ArtistGenres[enrichedTracks[i].artistIds[k]])})])]

GenreFreq(enrichedTracks) ==
    LET all == UNION {Range(enrichedTracks[i].genres) : i \in DOMAIN enrichedTracks}
    IN  [g \in all |->
            Cardinality({i \in DOMAIN enrichedTracks :
                            g \in Range(enrichedTracks[i].genres)})]

\* getCachedProfile_ExpiresAtTtl drops an entry whose age equals the TTL,
\* which the comparison of line 184 keeps.
getCachedProfile_ExpiresAtTtl(cache, p, time) ==
    IF ~cache[p].present THEN [hit |-> FALSE, cache |-> cache]
    ELSE IF time - cache[p].cachedAt >= CACHE_TTL_MS
         THEN [hit |-> FALSE, cache |-> [cache EXCEPT ![p] = NoEntry]]
         ELSE [hit |-> TRUE, cache |-> cache, profile |-> cache[p].profile]

getCachedProfile(cache, p, time) ==
    IF ~cache[p].present THEN [hit |-> FALSE, cache |-> cache]
    ELSE IF time - cache[p].cachedAt > CACHE_TTL_MS
         THEN [hit |-> FALSE, cache |-> [cache EXCEPT ![p] = NoEntry]]
         ELSE [hit |-> TRUE, cache |-> cache, profile |-> cache[p].profile]

\* setCachedProfile_KeepsFirst leaves an existing entry in place, where the
\* Map.set of line 193 replaces it.
setCachedProfile_KeepsFirst(cache, p, profile, time) ==
    IF cache[p].present THEN cache
    ELSE [cache EXCEPT ![p] = [present |-> TRUE, profile |-> profile, cachedAt |-> time]]

setCachedProfile(cache, p, profile, time) ==
    [cache EXCEPT ![p] = [present |-> TRUE, profile |-> profile, cachedAt |-> time]]

\* The PlaylistProfile object of lines 253-283, from the enriched sample.
NewProfile(p, trackCount, enrichedTracks) ==
    [playlistId |-> p,
     playlistName |-> PlaylistName(p),
     trackCount |-> trackCount,
     sampledCount |-> Len(enrichedTracks),
     artistIds |-> UNION {Range(enrichedTracks[i].artistIds) :
                            i \in DOMAIN enrichedTracks},
     genres |-> GenreFreq(enrichedTracks),
     avgPopularity |->
         (SumSeq([i \in DOMAIN enrichedTracks |->
                     enrichedTracks[i].popularity]) * PopScale)
         \div Len(enrichedTracks)]

\* The outcome of a build: ok = FALSE is a throw.
BuildOutcome(p, cache, time, profile) ==
    [ok |-> TRUE, profile |-> profile,
     cache |-> setCachedProfile(cache, p, profile, time)]

\* buildPlaylistProfile.  fetchFails maps the playlists whose metadata
\* fetch fails in this run to the error the provider call throws.
NoTracksError == "No tracks in playlist"

buildPlaylistProfile(p, cache, time, contents, fetchFails) ==
    LET cached == getCachedProfile(cache, p, time)
        tracks == getPlaylistTracks(p, SampleSize, contents)
    IN  IF cached.hit THEN [ok |-> TRUE, profile |-> cached.profile, cache |-> cached.cache]
        ELSE IF p \in DOMAIN fetchFails
             THEN [ok |-> FALSE, error |-> fetchFails[p], cache |-> cached.cache]
        ELSE IF Len(tracks) = 0
             THEN [ok |-> FALSE, error |-> NoTracksError, cache |-> cached.cache]
             ELSE BuildOutcome(p, cached.cache, time,
                      NewProfile(p, Len(contents[p]), enrichTracksWithGenres(tracks)))

\* The profiles of the owned, non-empty playlists, built in the order of the
\* list (lines 306-317); the cache is threaded through the builds.  The catch
\* of lines 312-315 drops the error of a failed build, whatever it is.
\* BuildProfiles_StopsAtFailure gives up the remaining builds at the first
\* failure, which the code does not do.
RECURSIVE BuildProfiles_StopsAtFailure(_, _, _, _, _)
BuildProfiles_StopsAtFailure(ownedPlaylists, cache, time, contents, fetchFails) ==
    IF ownedPlaylists = <<>> THEN [profiles |-> <<>>, cache |-> cache]
    ELSE LET playlist == Head(ownedPlaylists)
         IN  IF playlist.total = 0
             THEN BuildProfiles_StopsAtFailure(Tail(ownedPlaylists), cache, time,
                                               contents, fetchFails)
             ELSE LET b == buildPlaylistProfile(playlist.id, cache, time,
                                                contents, fetchFails)
                      rest == BuildProfiles_StopsAtFailure(Tail(ownedPlaylists), b.cache,
                                                           time, contents, fetchFails)
                  IN  IF b.ok THEN [profiles |-> <<b.profile>> \o rest.profiles,
                                    cache |-> rest.cache]
                      ELSE [profiles |-> <<>>, cache |-> b.cache]

RECURSIVE BuildProfiles(_, _, _, _, _)
BuildProfiles(ownedPlaylists, cache, time, contents, fetchFails) ==
    IF ownedPlaylists = <<>> THEN [profiles |-> <<>>, cache |-> cache]
    ELSE LET playlist == Head(ownedPlaylists)
         IN  IF playlist.total = 0
             THEN BuildProfiles(Tail(ownedPlaylists), cache, time, contents, fetchFails)
             ELSE LET b == buildPlaylistProfile(playlist.id, cache, time,
                                                contents, fetchFails)
                      rest == BuildProfiles(Tail(ownedPlaylists), b.cache, time,
                                            contents, fetchFails)
                  IN  [profiles |-> IF b.ok THEN <<b.profile>> \o rest.profiles
                                            ELSE rest.profiles,
                       cache |-> rest.cache]

\* Line 340: the score clears the threshold.  ClearsThreshold_Strict is the
\* strict comparison, which the code does not make.
ClearsThreshold_Strict(score, similarityThreshold) == score > similarityThreshold

ClearsThreshold(score, similarityThreshold) == score >= similarityThreshold

\* Line 341: the candidate replaces the best match so far.  Improves_Lower
\* is the reversed comparison.
Improves_Lower(bestMatch, score) == ~bestMatch.found \/ score < bestMatch.score

Improves(bestMatch, score) == ~bestMatch.found \/ score > bestMatch.score

NoBest == [found |-> FALSE]

\* The scan of lines 337-345, over the profiles in order.
RECURSIVE ScanProfiles(_, _, _, _)
ScanProfiles(song, profiles, similarityThreshold, bestMatch) ==
    IF profiles = <<>> THEN bestMatch
    ELSE LET r == calculateMatchScore(song, Head(profiles))
             next == IF ClearsThreshold(r.score, similarityThreshold)
                        /\ Improves(bestMatch, r.score)
                     THEN [found |-> TRUE, profile |-> Head(profiles),
                           score |-> r.score, breakdown |-> r.breakdown]
                     ELSE bestMatch
         IN  ScanProfiles(song, Tail(profiles), similarityThreshold, next)

\* Math.max(...playlistProfiles.map(p => calculateMatchScore(song, p).score))
BestScore(song, profiles) ==
    LET scores == {calculateMatchScore(song, profiles[i]).score : i \in DOMAIN profiles}
    IN  CHOOSE m \in scores : \A x \in scores : x <= m

NoPlaylistsReason == "No playlists available for matching"
NoGenreReason == "No genre data available for this track's artists"
BelowThresholdReason(best, similarityThreshold) ==
    <<"Best score", best, "below threshold", similarityThreshold>>

\* Lines 334-369 for one song: a match or an unmatched entry.
\* MatchSong_FirstProfileScore reports the score against the first profile
\* in the reason, where the code reports the maximum.
MatchSong_FirstProfileScore(song, profiles, similarityThreshold) ==
    LET bestMatch == ScanProfiles(song, profiles, similarityThreshold, NoBest)
    IN  IF bestMatch.found
        THEN [matched |-> TRUE,
              entry |-> [trackId |-> song.id,
                         trackUri |-> song.uri,
                         trackName |-> song.name,
                         playlistId |-> bestMatch.profile.playlistId,
                         playlistName |-> bestMatch.profile.playlistName,
                         score |-> bestMatch.score,
                         breakdown |-> bestMatch.breakdown]]
        ELSE [matched |-> FALSE,
              entry |-> [trackName |-> song.name,
                         reason |-> IF Len(song.genres) = 0
                                    THEN NoGenreReason
                                    ELSE BelowThresholdReason(
                                             calculateMatchScore(song, profiles[1]).score,
                                             similarityThreshold)]]

MatchSong(song, profiles, similarityThreshold) ==
    LET bestMatch == ScanProfiles(song, profiles, similarityThreshold, NoBest)
    IN  IF bestMatch.found
        THEN [matched |-> TRUE,
              entry |-> [trackId |-> song.id,
                         trackUri |-> song.uri,
                         trackName |-> song.name,
                         playlistId |-> bestMatch.profile.playlistId,
                         playlistName |-> bestMatch.profile.playlistName,
                         score |-> bestMatch.score,
                         breakdown |-> bestMatch.breakdown]]
        ELSE [matched |-> FALSE,
              entry |-> [trackName |-> song.name,
                         reason |-> IF Len(song.genres) = 0
                                    THEN NoGenreReason
                                    ELSE BelowThresholdReason(
                                             BestScore(song, profiles),
                                             similarityThreshold)]]

\* matches.sort((a, b) => b.score - a.score): a stable sort, descending.
\* SortByScore_Unsorted leaves the matches in the order of the liked songs.
SortByScore_Unsorted(ms) == ms

RECURSIVE SortByScore(_)
SortByScore(ms) ==
    IF ms = <<>> THEN <<>>
    ELSE LET r == SortByScore(SubSeq(ms, 1, Len(ms) - 1))
             m == ms[Len(ms)]
             k == Cardinality({i \in DOMAIN r : r[i].score >= m.score})
         IN  SubSeq(r, 1, k) \o <<m>> \o SubSeq(r, k + 1, Len(r))

Entries(results) == [i \in DOMAIN results |-> results[i].entry]

\* Lines 325-374: the loop over the enriched songs and the returned object.
\* built is the outcome of the profile builds of lines 306-317.
\* MatchLoop_EmptyUnmatched reports no unmatched song when no profile is
\* usable, which the code does not do.
MatchLoop_EmptyUnmatched(enrichedSongs, built, similarityThreshold, perSong) ==
    IF Len(built.profiles) = 0
    THEN [matches |-> <<>>, unmatched |-> <<>>,
          songs |-> enrichedSongs, profiles |-> built.profiles,
          cache |-> built.cache]
    ELSE [matches |-> SortByScore(Entries(SelectSeq(perSong, LAMBDA r : r.matched))),
          unmatched |-> Entries(SelectSeq(perSong, LAMBDA r : ~r.matched)),
          songs |-> enrichedSongs, profiles |-> built.profiles,
          cache |-> built.cache]

MatchLoop(enrichedSongs, built, similarityThreshold, perSong) ==
    IF Len(built.profiles) = 0
    THEN [matches |-> <<>>,
          unmatched |-> [i \in DOMAIN enrichedSongs |->
                            [trackName |-> enrichedSongs[i].name,
                             reason |-> NoPlaylistsReason]],
          songs |-> enrichedSongs, profiles |-> built.profiles,
          cache |-> built.cache]
    ELSE [matches |-> SortByScore(Entries(SelectSeq(perSong, LAMBDA r : r.matched))),
          unmatched |-> Entries(SelectSeq(perSong, LAMBDA r : ~r.matched)),
          songs |-> enrichedSongs, profiles |-> built.profiles,
          cache |-> built.cache]

\* MatchSongs_SkipsLast leaves the last liked song out of the loop of line
\* 325, which the code runs over every song.
MatchSongs_SkipsLast(enrichedSongs, built, similarityThreshold) ==
    MatchLoop(enrichedSongs, built, similarityThreshold,
              [i \in 1..(Len(enrichedSongs) - 1) |->
                  MatchSong(enrichedSongs[i], built.profiles, similarityThreshold)])

MatchSongs(enrichedSongs, built, similarityThreshold) ==
    MatchLoop(enrichedSongs, built, similarityThreshold,
              [i \in DOMAIN enrichedSongs |->
                  MatchSong(enrichedSongs[i], built.profiles, similarityThreshold)])

\* matchSongsToPlaylists without the filter of line 304, which the code has.
matchSongsToPlaylists_NoOwnerFilter(u, likedSongsLimit, playlistLimit, similarityThreshold, cache, time, contents, fetchFails) ==
    MatchSongs(enrichTracksWithGenres(getLikedSongs(u, likedSongsLimit)),
               BuildProfiles(getUserPlaylists(u, playlistLimit, contents),
                             cache, time, contents, fetchFails),
               similarityThreshold)

matchSongsToPlaylists(u, likedSongsLimit, playlistLimit, similarityThreshold, cache, time, contents, fetchFails) ==
    LET currentUserId == u
        likedSongs == getLikedSongs(u, likedSongsLimit)
        enrichedSongs == enrichTracksWithGenres(likedSongs)
        allPlaylists == getUserPlaylists(u, playlistLimit, contents)
        ownedPlaylists == SelectSeq(allPlaylists, LAMBDA p : p.owner = currentUserId)
    IN  MatchSongs(enrichedSongs,
                   BuildProfiles(ownedPlaylists, cache, time, contents, fetchFails),
                   similarityThreshold)

\* SpotifyClient.addTracksToPlaylist: nothing is sent for an empty list; the
\* lists of this model fit one request of at most ChunkSize URIs.  failing
\* maps the playlists whose request the provider rejects to the error message.
ChunkSize == 100

addTracksToPlaylist(playlistId, trackUris, failing) ==
    IF Len(trackUris) = 0 THEN [ok |-> TRUE, sent |-> <<>>]
    ELSE IF playlistId \in DOMAIN failing
         THEN [ok |-> FALSE, message |-> failing[playlistId], sent |-> <<>>]
         ELSE [ok |-> TRUE, sent |-> trackUris]

\* ApplyAdds without the catch of lines 418-427: the first rejected request
\* ends the loop.
RECURSIVE ApplyAdds_StopsAtFailure(_, _, _, _)
ApplyAdds_StopsAtFailure(keys, matches, failing, acc) ==
    IF keys = <<>> THEN acc
    ELSE LET playlistId == Head(keys)
             playlistMatches == SelectSeq(matches, LAMBDA m : m.playlistId = playlistId)
             trackUris == [i \in DOMAIN playlistMatches |-> playlistMatches[i].trackUri]
             r == addTracksToPlaylist(playlistId, trackUris, failing)
             call == [playlistId |-> playlistId, trackUris |-> trackUris, ok |-> r.ok]
         IN  IF r.ok
             THEN ApplyAdds_StopsAtFailure(Tail(keys), matches, failing,
                      [added |-> Append(acc.added,
                                   [playlistId |-> playlistId,
                                    playlistName |-> playlistMatches[1].playlistName,
                                    tracks |-> [i \in DOMAIN playlistMatches |->
                                                   playlistMatches[i].trackName]]),
                       unmatched |-> acc.unmatched,
                       addCalls |-> Append(acc.addCalls, call)])
             ELSE [added |-> acc.added, unmatched |-> acc.unmatched,
                   addCalls |-> Append(acc.addCalls, call)]

\* Lines 407-428: one destination playlist after the other, in the order of
\* the Map's keys.  acc collects added, unmatched and the calls made.
RECURSIVE ApplyAdds(_, _, _, _)
ApplyAdds(keys, matches, failing, acc) ==
    IF keys = <<>> THEN acc
    ELSE LET playlistId == Head(keys)
             playlistMatches == SelectSeq(matches, LAMBDA m : m.playlistId = playlistId)
             trackUris == [i \in DOMAIN playlistMatches |-> playlistMatches[i].trackUri]
             trackNames == [i \in DOMAIN playlistMatches |-> playlistMatches[i].trackName]
             r == addTracksToPlaylist(playlistId, trackUris, failing)
             call == [playlistId |-> playlistId, trackUris |-> trackUris, ok |-> r.ok]
         IN  ApplyAdds(Tail(keys), matches, failing,
                 IF r.ok
                 THEN [added |-> Append(acc.added,
                                   [playlistId |-> playlistId,
                                    playlistName |-> playlistMatches[1].playlistName,
                                    tracks |-> trackNames]),
                       unmatched |-> acc.unmatched,
                       addCalls |-> Append(acc.addCalls, call)]
                 ELSE [added |-> acc.added,
                       unmatched |-> acc.unmatched \o
                                     [i \in DOMAIN playlistMatches |->
                                         [trackName |-> playlistMatches[i].trackName,
                                          reason |-> r.message]],
                       addCalls |-> Append(acc.addCalls, call)])

\* The dry-run projection of lines 429-438.
WouldAdd(keys, matches) ==
    [k \in DOMAIN keys |->
        LET playlistMatches == SelectSeq(matches, LAMBDA m : m.playlistId = keys[k])
        IN  [playlistId |-> keys[k],
             playlistName |-> playlistMatches[1].playlistName,
             tracks |-> [i \in DOMAIN playlistMatches |-> playlistMatches[i].trackName]]]

\* autoOrganize on the result mr of matchSongsToPlaylists.  Two variants come
\* first: one that does not group the matches by playlist, and one that
\* applies the matches whatever dryRun says.
autoOrganize_CallPerMatch(mr, dryRun, failing) ==
    LET keys == [i \in DOMAIN mr.matches |-> mr.matches[i].playlistId]
        applied == ApplyAdds(keys, mr.matches, failing,
                       [added |-> <<>>, unmatched |-> mr.unmatched, addCalls |-> <<>>])
    IN  IF ~dryRun
        THEN [matches |-> mr.matches, added |-> applied.added,
              unmatched |-> applied.unmatched, dryRun |-> dryRun,
              addCalls |-> applied.addCalls]
        ELSE [matches |-> mr.matches, added |-> WouldAdd(Dedup(keys), mr.matches),
              unmatched |-> mr.unmatched, dryRun |-> dryRun, addCalls |-> <<>>]

autoOrganize_IgnoresDryRun(mr, dryRun, failing) ==
    LET keys == Dedup([i \in DOMAIN mr.matches |-> mr.matches[i].playlistId])
        applied == ApplyAdds(keys, mr.matches, failing,
                       [added |-> <<>>, unmatched |-> mr.unmatched, addCalls |-> <<>>])
    IN  [matches |-> mr.matches, added |-> applied.added,
         unmatched |-> applied.unmatched, dryRun |-> dryRun,
         addCalls |-> applied.addCalls]

autoOrganize(mr, dryRun, failing) ==
    LET byPlaylistKeys == Dedup([i \in DOMAIN mr.matches |-> mr.matches[i].playlistId])
        applied == ApplyAdds(byPlaylistKeys, mr.matches, failing,
                       [added |-> <<>>, unmatched |-> mr.unmatched, addCalls |-> <<>>])
    IN  IF ~dryRun
        THEN [matches |-> mr.matches, added |-> applied.added,
              unmatched |-> applied.unmatched, dryRun |-> dryRun,
              addCalls |-> applied.addCalls]
        ELSE [matches |-> mr.matches, added |-> WouldAdd(byPlaylistKeys, mr.matches),
              unmatched |-> mr.unmatched, dryRun |-> dryRun, addCalls |-> <<>>]

(***************************************************************************)
(* Match history store                                                     *)
(***************************************************************************)

getMatchedTrackIds(history, u) ==
    {history[u].matches[i].trackId : i \in DOMAIN history[u].matches}

\* addMatches: a record whose track id is already present is skipped.  (The
\* store's lastMatchRun stamp, which only the dashboard displays, is left out.)
\* AppendNew_IgnoresBatch tests each record against the stored records only,
\* not against the records of the batch added before it.
AppendNew_IgnoresBatch(existing, records) ==
    existing \o SelectSeq(records, LAMBDA r :
                    ~\E i \in DOMAIN existing : existing[i].trackId = r.trackId)

RECURSIVE AppendNew(_, _)
AppendNew(existing, records) ==
    IF records = <<>> THEN existing
    ELSE AppendNew(
             IF \E i \in DOMAIN existing : existing[i].trackId = Head(records).trackId
             THEN existing
             ELSE Append(existing, Head(records)),
             Tail(records))

addMatches(history, u, records) ==
    [history EXCEPT ![u] = [matches |-> AppendNew(history[u].matches, records)]]

\* MatchHistoryStore.removeMatch: the user's records of the track are
\* filtered out.  removeMatch_EveryUser filters every user's records.
removeMatch_EveryUser(history, u, trackId) ==
    [v \in DOMAIN history |->
        [matches |-> SelectSeq(history[v].matches, LAMBDA m : m.trackId # trackId)]]

removeMatch(history, u, trackId) ==
    [history EXCEPT ![u] = [matches |-> SelectSeq(history[u].matches,
                                            LAMBDA m : m.trackId # trackId)]]

\* PgMatchHistoryStore.  A row of match_history is a record with its user_id.
Row(u, record) ==
    [userId |-> u, trackId |-> record.trackId, playlistId |-> record.playlistId,
     playlistName |-> record.playlistName, matchedAt |-> record.matchedAt]

\* INSERT ... ON CONFLICT (user_id, track_id) DO UPDATE SET playlist_id =
\* EXCLUDED.playlist_id, ...: the row in conflict takes the new values.
Upsert(rows, u, record) ==
    {r \in rows : ~(r.userId = u /\ r.trackId = record.trackId)}
        \cup {Row(u, record)}

\* PgMatchHistoryStore.addMatches: one INSERT per record, in order.
RECURSIVE PgAddMatches(_, _, _)
PgAddMatches(rows, u, records) ==
    IF records = <<>> THEN rows
    ELSE PgAddMatches(Upsert(rows, u, Head(records)), u, Tail(records))

\* DELETE FROM match_history WHERE user_id = $1 AND track_id = $2
PgRemoveMatch(rows, u, trackId) ==
    {r \in rows : ~(r.userId = u /\ r.trackId = trackId)}

\* SELECT track_id FROM match_history WHERE user_id = $1
PgGetMatchedTrackIds(rows, u) == {r.trackId : r \in {x \in rows : x.userId = u}}

(***************************************************************************)
(* The provider's playlists                                                *)
(***************************************************************************)

\* The effect of the add calls on the provider's playlists: a call that
\* succeeded appends its tracks, duplicates included.
RECURSIVE ApplyCalls(_, _)
ApplyCalls(contents, addCalls) ==
    IF addCalls = <<>> THEN contents
    ELSE LET c == Head(addCalls)
             ids == [i \in DOMAIN c.trackUris |-> c.trackUris[i][2]]
         IN  ApplyCalls(IF c.ok
                        THEN [contents EXCEPT ![c.playlistId] = @ \o ids]
                        ELSE contents,
                        Tail(addCalls))

\* The provider's DELETE /playlists/{id}/tracks: every occurrence of each
\* listed track leaves the playlist.
removeTracksFromPlaylist(contents, playlistId, trackUris) ==
    IF Len(trackUris) = 0 THEN contents
    ELSE [contents EXCEPT ![playlistId] =
             SelectSeq(@, LAMBDA t : TrackUri(t) \notin Range(trackUris))]

\* The bounds on the provider's playlists: the length of each one, and the
\* number of tracks they hold together (three at the start).
WithinBounds(contents) ==
    /\ \A p \in Playlists : Len(contents[p]) <= MaxPlaylistTracks
    /\ Cardinality(UNION {{p} \X DOMAIN contents[p] : p \in Playlists})
           <= MaxTotalTracks

FailureMessages == {"Spotify API error: 500"}

\* getValidAccessToken's error when the access token is about to expire and
\* its refresh is refused, which any provider call of a run can meet, and
\* the errors a provider call can throw.
AuthErrors == {"Token refresh failed"}
ProviderErrors == FailureMessages \cup AuthErrors

\* The playlists of u whose profile build can fail in a run.
Buildable(u, contents) ==
    {p \in Range(UserPlaylists[u]) : PlaylistOwner[p] = u /\ Len(contents[p]) > 0}

(***************************************************************************)
(* Callers                                                                 *)
(***************************************************************************)

\* const newMatches = result.matches.filter(m => !matchedTrackIds.has(m.trackId))
NewMatches(matches, matchedTrackIds) ==
    SelectSeq(matches, LAMBDA m : m.trackId \notin matchedTrackIds)

\* The records built from the new matches.  (matchedAt, which is displayed
\* and never read back by a run, is left out, like the names.)
MatchRecords(newMatches) ==
    [i \in DOMAIN newMatches |->
        [trackId |-> newMatches[i].trackId,
         playlistId |-> newMatches[i].playlistId,
         playlistName |-> newMatches[i].playlistName]]

NoRun ==
    [op |-> "none", userId |-> "u1", dryRun |-> TRUE, threshold |-> 0,
     matchedBefore |-> {}, songs |-> <<>>, profiles |-> <<>>, matches |-> <<>>,
     unmatched |-> <<>>, added |-> <<>>, addCalls |-> <<>>, failing |-> <<>>,
     recorded |-> <<>>, newMatches |-> <<>>, playlistsBefore |-> <<>>,
     playlistLimit |-> 0, fetchFails |-> <<>>, failed |-> FALSE, error |-> ""]

\* No request is being answered: lastRun holds a run from its end until its
\* reply is sent, and one request is served at a time.  lastRun.failing is
\* the provider's rejections during the run, lastRun.playlistsBefore the
\* playlists' contents when the run started and lastRun.fetchFails the
\* failing metadata fetches of the run.  lastRun.failed tells that the
\* handler's call threw lastRun.error instead of returning a result.
Idle == lastRun.op = "none"

\* The playlists whose cache entry getCachedProfile would return at time.
LiveEntries(cache, time) ==
    {p \in Playlists : getCachedProfile(cache, p, time).hit}

\* GET /api/match: matchSongsToPlaylists, then the filter against the history.
\* (\E x \in {e} binds x to the value of e, computed once.)
MatchEndpoint(u, likedSongsLimit, playlistLimit, threshold, fetchFails) ==
    /\ Idle
    /\ \E matchedTrackIds \in {getMatchedTrackIds(matchHistory, u)} :
       \E result \in {matchSongsToPlaylists(u, likedSongsLimit, playlistLimit, threshold,
                                            profileCache, now, playlistTracks, fetchFails)} :
           /\ profileCache' = result.cache
           /\ lastRun' = [op |-> "match", userId |-> u, dryRun |-> TRUE,
                          threshold |-> threshold, matchedBefore |-> matchedTrackIds,
                          songs |-> result.songs, profiles |-> result.profiles,
                          matches |-> result.matches, unmatched |-> result.unmatched,
                          added |-> <<>>, addCalls |-> <<>>, failing |-> <<>>,
                          recorded |-> <<>>,
                          newMatches |-> NewMatches(result.matches, matchedTrackIds),
                          playlistsBefore |-> playlistTracks,
                          playlistLimit |-> playlistLimit,
                          fetchFails |-> fetchFails,
                          failed |-> FALSE, error |-> ""]
           /\ UNCHANGED <<playlistTracks, now, matchHistory,
                          scoreTrack, scoreProfile, scoreResult,
                          usePostgres, match_history,
                   calls, jobs, oauth_states>>

\* The ways the provider can reject the add requests of a run, as a map
\* from the rejected playlist to the message: at most one provider failure
\* is considered per run, so none when a metadata fetch has failed, and
\* none in a dry run, which sends no request.
Failings(matches, dryRun, fetchFails) ==
    IF dryRun \/ DOMAIN fetchFails # {} THEN {<<>>}
    ELSE {<<>>} \cup UNION {[{p} -> FailureMessages] :
                              p \in {matches[i].playlistId : i \in DOMAIN matches}}

\* The body shared by POST /api/organize, POST /api/sync-now and
\* CronRunner.runJob: read the matched ids, autoOrganize, filter, record.
OrganizeAndRecord(op, u, likedSongsLimit, playlistLimit, threshold, dryRun, fetchFails) ==
    /\ Idle
    /\ \E matchedTrackIds \in {getMatchedTrackIds(matchHistory, u)} :
       \E mr \in {matchSongsToPlaylists(u, likedSongsLimit, playlistLimit, threshold,
                                        profileCache, now, playlistTracks, fetchFails)} :
       \E failing \in Failings(mr.matches, dryRun, fetchFails) :
       \E result \in {autoOrganize(mr, dryRun, failing)} :
       \E newMatches \in {NewMatches(result.matches, matchedTrackIds)} :
       \E records \in {IF ~dryRun /\ Len(newMatches) > 0
                       THEN MatchRecords(newMatches) ELSE <<>>} :
       \E contents \in {ApplyCalls(playlistTracks, result.addCalls)} :
           /\ WithinBounds(contents)
           /\ playlistTracks' = contents
           /\ profileCache' = mr.cache
           /\ matchHistory' = IF records # <<>>
                              THEN addMatches(matchHistory, u, records)
                              ELSE matchHistory
           /\ lastRun' = [op |-> op, userId |-> u, dryRun |-> dryRun,
                          threshold |-> threshold,
                          matchedBefore |-> matchedTrackIds,
                          songs |-> mr.songs, profiles |-> mr.profiles,
                          matches |-> result.matches,
                          unmatched |-> result.unmatched,
                          added |-> result.added, addCalls |-> result.addCalls,
                          failing |-> failing,
                          recorded |-> records, newMatches |-> newMatches,
                          playlistsBefore |-> playlistTracks,
                          playlistLimit |-> playlistLimit,
                          fetchFails |-> fetchFails,
                          failed |-> FALSE, error |-> ""]
           /\ UNCHANGED <<now, scoreTrack, scoreProfile, scoreResult,
                          usePostgres, match_history,
                   calls, jobs, oauth_states>>

\* The metadata fetches that fail in a run: none, or those of one playlist,
\* with the error thrown, one of errors.  The catch of lines 312-315 treats
\* every error alike: GET /api/match is explored with each kind of error,
\* the organizing callers with the provider's rejection.
FetchFails(u, contents, errors) ==
    {<<>>} \cup UNION {[{p} -> errors] : p \in Buildable(u, contents)}

\* getCurrentUser, getLikedSongs or getUserPlaylists (lines 295-303) throws:
\* matchSongsToPlaylists rejects before any build, nothing is written, and
\* the handler's catch reports the error, whatever it is; the runs explored
\* fail with an authentication error.
RunFails(op, u, error) ==
    /\ Idle
    /\ lastRun' = [NoRun EXCEPT !.op = op, !.userId = u, !.failed = TRUE,
                                !.error = error, !.playlistsBefore = playlistTracks]
    /\ UNCHANGED <<playlistTracks, profileCache, now, matchHistory,
                   scoreTrack, scoreProfile, scoreResult,
                   usePostgres, match_history,
                   calls, jobs, oauth_states>>

DefaultPlaylistLimit == 10

\* The users who call the service, and the limits they ask for.
ActiveUsers == {"u1"}
LikedLimits == {1, MaxLiked}
PlaylistLimits == {1, DefaultPlaylistLimit}

\* POST /api/organize
Organize ==
    /\ Idle
    /\ \/ \E u \in ActiveUsers, likedSongsLimit \in LikedLimits, threshold \in Thresholds,
             dryRun \in BOOLEAN :
            \E fetchFails \in FetchFails(u, playlistTracks, FailureMessages) :
              OrganizeAndRecord("organize", u, likedSongsLimit, DefaultPlaylistLimit,
                                threshold, dryRun, fetchFails)
       \/ \E u \in ActiveUsers, error \in AuthErrors : RunFails("organize", u, error)

\* POST /api/sync-now; songsToMatch is the user's setting.
SyncNow ==
    /\ Idle
    /\ \/ \E u \in ActiveUsers, songsToMatch \in LikedLimits :
            \E fetchFails \in FetchFails(u, playlistTracks, FailureMessages) :
              OrganizeAndRecord("sync-now", u, songsToMatch, CronPlaylistLimit,
                                CronThreshold, FALSE, fetchFails)
       \/ \E u \in ActiveUsers, error \in AuthErrors : RunFails("sync-now", u, error)

\* CronRunner.runJob for an authenticated user.
RunJob ==
    /\ Idle
    /\ \/ \E u \in ActiveUsers, songsToMatch \in LikedLimits :
            \E fetchFails \in FetchFails(u, playlistTracks, FailureMessages) :
              OrganizeAndRecord("runJob", u, songsToMatch, CronPlaylistLimit,
                                CronThreshold, FALSE, fetchFails)
       \/ \E u \in ActiveUsers, error \in AuthErrors : RunFails("runJob", u, error)

Match ==
    /\ Idle
    /\ \/ \E u \in ActiveUsers, likedSongsLimit \in LikedLimits, threshold \in Thresholds,
             playlistLimit \in PlaylistLimits :
            \E fetchFails \in FetchFails(u, playlistTracks, ProviderErrors) :
              MatchEndpoint(u, likedSongsLimit, playlistLimit, threshold, fetchFails)
       \/ \E u \in ActiveUsers, error \in AuthErrors : RunFails("match", u, error)

\* The end of a request or job: res.json(...) is sent, or onJobComplete is
\* called, and the result is dropped.
Reply ==
    /\ ~Idle
    /\ lastRun' = NoRun
    /\ UNCHANGED <<playlistTracks, profileCache, now, matchHistory,
                   scoreTrack, scoreProfile, scoreResult,
                   usePostgres, match_history,
                   calls, jobs, oauth_states>>

\* An hour passes.
Tick ==
    /\ Idle
    /\ now < MaxTime
    /\ now' = now + 1
    /\ UNCHANGED <<playlistTracks, profileCache, matchHistory, lastRun,
                   scoreTrack, scoreProfile, scoreResult,
                   usePostgres, match_history,
                   calls, jobs, oauth_states>>

NoResult == [done |-> FALSE]

\* u2 has applied a match of its own before; u1's history is empty.
InitialHistory ==
    [u \in Users |->
        [matches |-> IF u = "u2"
                     THEN <<[trackId |-> "t2", playlistId |-> "p3",
                             playlistName |-> PlaylistName("p3")]>>
                     ELSE <<>>]]

Init ==
    /\ playlistTracks = InitialPlaylistTracks
    /\ profileCache = [p \in Playlists |-> NoEntry]
    /\ now = 0
    /\ matchHistory = InitialHistory
    /\ usePostgres = FALSE
    /\ match_history = {}
    /\ lastRun = NoRun
    /\ NoAsync
    /\ scoreTrack = [artistIds |-> <<>>, genres |-> <<>>, popularity |-> 0]
    /\ scoreProfile = [artistIds |-> {}, genres |-> <<>>, avgPopularity |-> 0]
    /\ scoreResult = NoResult

Next == Match \/ Organize \/ SyncNow \/ RunJob \/ Reply \/ Tick

Spec == Init /\ [][Next]_vars

(***************************************************************************)
(* calculateMatchScore on its own: the inputs are drawn from bounded sets  *)
(* and the function is applied once.                                       *)
(***************************************************************************)

ScoreArtistLists == {<<"a1">>, <<"a1", "a2">>, <<"a3">>, <<"a2", "a3">>}
ScoreGenreLists ==
    {<<>>, <<"rock">>, <<"rock", "metal">>, <<"jazz">>, <<"rock", "metal", "jazz">>}
ScorePopularities == {10, 50, 70}

\* TrackWithGenres: the fields calculateMatchScore reads.
ScoreTracks ==
    [artistIds : ScoreArtistLists, genres : ScoreGenreLists,
     popularity : ScorePopularities]

\* PlaylistProfile: the fields calculateMatchScore reads; genres maps each
\* genre of the profile to its count, 1..MaxFreq.
ScoreProfiles ==
    [artistIds : SUBSET {"a1", "a3"} \ {{}},
     genres : UNION {[G -> 1..MaxFreq] : G \in SUBSET {"rock", "metal"}},
     avgPopularity : {50 * PopScale, 65 * PopScale}]

InitScore ==
    /\ playlistTracks = InitialPlaylistTracks
    /\ profileCache = [p \in Playlists |-> NoEntry]
    /\ now = 0
    /\ matchHistory = InitialHistory
    /\ usePostgres = FALSE
    /\ match_history = {}
    /\ lastRun = NoRun
    /\ NoAsync
    /\ scoreTrack \in ScoreTracks
    /\ scoreProfile \in ScoreProfiles
    /\ scoreResult = NoResult

\* One call of calculateMatchScore(track, playlist); the unrounded
\* sub-scores it computes are kept beside its result.
Score ==
    /\ ~scoreResult.done
    /\ scoreResult' =
           [done |-> TRUE,
            result |-> calculateMatchScore(scoreTrack, scoreProfile),
            artistScore |-> artistOverlapScore(scoreTrack.artistIds,
                                               scoreProfile.artistIds),
            genreScore |-> genreOverlapScore(scoreTrack.genres,
                                             DOMAIN scoreProfile.genres),
            weightedGenre |-> weightedGenreScore(scoreTrack.genres,
                                                 scoreProfile.genres),
            popSimilarity |-> popularitySimilarity(scoreTrack.popularity,
                                                   scoreProfile.avgPopularity)]
    /\ UNCHANGED <<playlistTracks, profileCache, now, matchHistory, lastRun,
                   scoreTrack, scoreProfile, usePostgres, match_history,
                   calls, jobs, oauth_states>>

NextScore == Score

SpecScore == InitScore /\ [][NextScore]_vars

\* The sets of genres jaccardSimilarity is called on.
JaccardGenres == {"rock", "metal", "jazz", "blues"}

InitJaccard ==
    /\ playlistTracks = InitialPlaylistTracks
    /\ profileCache = [p \in Playlists |-> NoEntry]
    /\ now = 0
    /\ matchHistory = InitialHistory
    /\ usePostgres = FALSE
    /\ match_history = {}
    /\ lastRun = NoRun
    /\ NoAsync
    /\ scoreTrack \in SUBSET JaccardGenres
    /\ scoreProfile \in SUBSET JaccardGenres
    /\ scoreResult = NoResult

\* One call of jaccardSimilarity(setA, setB), and the call with the
\* arguments exchanged.
Jaccard ==
    /\ ~scoreResult.done
    /\ scoreResult' = [done |-> TRUE,
                       result |-> jaccardSimilarity(scoreTrack, scoreProfile),
                       exchanged |-> jaccardSimilarity(scoreProfile, scoreTrack)]
    /\ UNCHANGED <<playlistTracks, profileCache, now, matchHistory, lastRun,
                   scoreTrack, scoreProfile, usePostgres, match_history,
                   calls, jobs, oauth_states>>

NextJaccard == Jaccard

SpecJaccard == InitJaccard /\ [][NextJaccard]_vars

\* The artist lists of a track: up to MaxTrackArtists distinct artists.
MaxTrackArtists == 3

ArtistLists ==
    UNION {{s \in [1..n -> Artists] : \A i, j \in 1..n : s[i] = s[j] => i = j} :
              n \in 0..MaxTrackArtists}

InitArtist ==
    /\ playlistTracks = InitialPlaylistTracks
    /\ profileCache = [p \in Playlists |-> NoEntry]
    /\ now = 0
    /\ matchHistory = InitialHistory
    /\ usePostgres = FALSE
    /\ match_history = {}
    /\ lastRun = NoRun
    /\ NoAsync
    /\ scoreTrack \in ArtistLists
    /\ scoreProfile \in SUBSET Artists
    /\ scoreResult = NoResult

\* One call of artistOverlapScore(trackArtistIds, playlistArtistIds).
ArtistOverlap ==
    /\ ~scoreResult.done
    /\ scoreResult' = [done |-> TRUE,
                       result |-> artistOverlapScore(scoreTrack, scoreProfile)]
    /\ UNCHANGED <<playlistTracks, profileCache, now, matchHistory, lastRun,
                   scoreTrack, scoreProfile, usePostgres, match_history,
                   calls, jobs, oauth_states>>

NextArtist == ArtistOverlap

SpecArtist == InitArtist /\ [][NextArtist]_vars

\* Popularities are on the provider's 0-100 scale.
MaxPopularity == 100

InitPopularity ==
    /\ playlistTracks = InitialPlaylistTracks
    /\ profileCache = [p \in Playlists |-> NoEntry]
    /\ now = 0
    /\ matchHistory = InitialHistory
    /\ usePostgres = FALSE
    /\ match_history = {}
    /\ lastRun = NoRun
    /\ NoAsync
    /\ scoreTrack \in 0..MaxPopularity
    /\ scoreProfile \in 0..MaxPopularity
    /\ scoreResult = NoResult

\* One call of popularitySimilarity(x, y), and the call with the arguments
\* exchanged.  (The second parameter is kept in 1/PopScale points.)
Popularity ==
    /\ ~scoreResult.done
    /\ scoreResult' =
           [done |-> TRUE,
            result |-> popularitySimilarity(scoreTrack, scoreProfile * PopScale),
            exchanged |-> popularitySimilarity(scoreProfile, scoreTrack * PopScale)]
    /\ UNCHANGED <<playlistTracks, profileCache, now, matchHistory, lastRun,
                   scoreTrack, scoreProfile, usePostgres, match_history,
                   calls, jobs, oauth_states>>

NextPopularity == Popularity

SpecPopularity == InitPopularity /\ [][NextPopularity]_vars

(***************************************************************************)
(* The match-history stores and POST /api/move-track                       *)
(***************************************************************************)

StoreTracks == {"t1", "t2"}
RecordPlaylists == {"p1", "p2"}
MovePlaylists == {"p1"}

\* The records a caller can build at a time: matchedAt is Date.now().
NewRecords(time) ==
    {[trackId |-> t, playlistId |-> p, playlistName |-> PlaylistName(p),
      matchedAt |-> time] : t \in StoreTracks, p \in RecordPlaylists}

\* The batches passed to addMatches: one record, or two records, which may
\* carry the same track id.
Batches(time) ==
    {<<r>> : r \in NewRecords(time)}
        \cup {<<r1, r2>> : r1 \in NewRecords(time), r2 \in NewRecords(time)}

\* matchHistoryStore.addMatches(userId, records), on the store in use.
StoreAddMatches(u, records) ==
    /\ Idle
    /\ IF usePostgres
       THEN /\ match_history' = PgAddMatches(match_history, u, records)
            /\ UNCHANGED matchHistory
       ELSE /\ matchHistory' = addMatches(matchHistory, u, records)
            /\ UNCHANGED match_history
    /\ lastRun' = [op |-> "addMatches", userId |-> u, records |-> records,
                   historyBefore |-> matchHistory, rowsBefore |-> match_history]
    /\ UNCHANGED <<playlistTracks, profileCache, now,
                   scoreTrack, scoreProfile, scoreResult, usePostgres,
                   calls, jobs, oauth_states>>

AddMatches ==
    \E u \in ActiveUsers : \E records \in Batches(now) : StoreAddMatches(u, records)

\* An absent trackId, fromPlaylistId or toPlaylistId of the request body.
Absent == ""

\* The provider call of a move-track request that is rejected, if any.
MoveFailures == {"none", "remove", "add"}

\* The outcome of POST /api/move-track: the reply's status, the playlists'
\* contents, and whether removeMatch was called.
MoveOutcome(trackId, fromPlaylistId, toPlaylistId, fails, contents) ==
    IF trackId = Absent \/ (fromPlaylistId = Absent /\ toPlaylistId = Absent)
    THEN [status |-> 400, contents |-> contents, removed |-> FALSE]
    ELSE IF fromPlaylistId # Absent /\ fails = "remove"
    THEN [status |-> 500, contents |-> contents, removed |-> FALSE]
    ELSE LET afterRemove ==
                 IF fromPlaylistId # Absent
                 THEN removeTracksFromPlaylist(contents, fromPlaylistId,
                                               <<TrackUri(trackId)>>)
                 ELSE contents
         IN  IF toPlaylistId # Absent /\ fails = "add"
             THEN [status |-> 500, contents |-> afterRemove,
                   removed |-> fromPlaylistId # Absent]
             ELSE [status |-> 200,
                   contents |-> IF toPlaylistId # Absent
                                THEN [afterRemove EXCEPT ![toPlaylistId] =
                                         Append(@, trackId)]
                                ELSE afterRemove,
                   removed |-> fromPlaylistId # Absent]

MoveTrackEndpoint(u, trackId, fromPlaylistId, toPlaylistId, fails) ==
    /\ Idle
    /\ \E out \in {MoveOutcome(trackId, fromPlaylistId, toPlaylistId, fails,
                                playlistTracks)} :
           /\ WithinBounds(out.contents)
           /\ playlistTracks' = out.contents
           /\ IF out.removed /\ usePostgres
              THEN /\ match_history' = PgRemoveMatch(match_history, u, trackId)
                   /\ UNCHANGED matchHistory
              ELSE IF out.removed
              THEN /\ matchHistory' = removeMatch(matchHistory, u, trackId)
                   /\ UNCHANGED match_history
              ELSE UNCHANGED <<matchHistory, match_history>>
           /\ lastRun' = [op |-> "move-track", userId |-> u, trackId |-> trackId,
                          fromPlaylistId |-> fromPlaylistId,
                          toPlaylistId |-> toPlaylistId,
                          fails |-> fails, status |-> out.status,
                          historyBefore |-> matchHistory,
                          rowsBefore |-> match_history,
                          playlistsBefore |-> playlistTracks]
    /\ UNCHANGED <<profileCache, now, scoreTrack, scoreProfile, scoreResult,
                   usePostgres,
                   calls, jobs, oauth_states>>

\* POST /api/move-track
MoveTrack ==
    \E u \in ActiveUsers, trackId \in StoreTracks \cup {Absent},
       fails \in MoveFailures :
      \E fromPlaylistId \in MovePlaylists \cup {Absent},
         toPlaylistId \in MovePlaylists \cup {Absent} :
        MoveTrackEndpoint(u, trackId, fromPlaylistId, toPlaylistId, fails)

\* The record u2 holds from the start, for a track u1 can record too.
OtherUsersRecord ==
    [trackId |-> "t1", playlistId |-> "p3", playlistName |-> PlaylistName("p3"),
     matchedAt |-> 0]

\* The store in use is chosen at startup; the other one stays empty.
InitStore ==
    /\ playlistTracks = InitialPlaylistTracks
    /\ profileCache = [p \in Playlists |-> NoEntry]
    /\ now = 0
    /\ usePostgres \in BOOLEAN
    /\ matchHistory =
           [u \in Users |->
               [matches |-> IF u = "u2" /\ ~usePostgres
                            THEN <<OtherUsersRecord>> ELSE <<>>]]
    /\ match_history = IF usePostgres THEN {Row("u2", OtherUsersRecord)} ELSE {}
    /\ lastRun = NoRun
    /\ NoAsync
    /\ scoreTrack = [artistIds |-> <<>>, genres |-> <<>>, popularity |-> 0]
    /\ scoreProfile = [artistIds |-> {}, genres |-> <<>>, avgPopularity |-> 0]
    /\ scoreResult = NoResult

NextStore == AddMatches \/ MoveTrack \/ Reply \/ Tick

SpecStore == InitStore /\ [][NextStore]_vars

(***************************************************************************)
(* buildPlaylistProfile, one await at a time: several match calls build    *)
(* profiles at once, the playlists change at the provider, time passes.    *)
(***************************************************************************)

\* The match calls that can be in progress at once, and the playlists they
\* build the profile of.
CacheCallers == {"c1", "c2"}
CachePlaylists == {"p1"}

NoCall == [pc |-> "idle"]
NoOutcome == [ok |-> FALSE, error |-> ""]

\* Lines 235-238: the lookup, and the return of the cached profile on a hit;
\* on a miss the request of line 240 is sent.  seen is the entry the lookup
\* found, providerCalls the number of provider requests the call has sent,
\* latest tells that the call made the last write of its playlist's entry.
BuildStart(c, p) ==
    /\ calls[c].pc = "idle"
    /\ \E cached \in {getCachedProfile(profileCache, p, now)} :
           /\ profileCache' = cached.cache
           /\ calls' = [calls EXCEPT ![c] =
                  [pc |-> IF cached.hit THEN "done" ELSE "getPlaylist",
                   playlistId |-> p, hit |-> cached.hit,
                   seen |-> profileCache[p], lookedAt |-> now,
                   total |-> 0, tracks |-> <<>>,
                   providerCalls |-> IF cached.hit THEN 0 ELSE 1,
                   result |-> IF cached.hit
                              THEN [ok |-> TRUE, profile |-> cached.profile]
                              ELSE NoOutcome,
                   latest |-> FALSE]]
    /\ UNCHANGED <<playlistTracks, now, matchHistory, lastRun,
                   scoreTrack, scoreProfile, scoreResult, usePostgres, match_history,
                   jobs, oauth_states>>

\* The call ends with a throw.
Throws(call, error) ==
    [call EXCEPT !.pc = "done", !.result = [ok |-> FALSE, error |-> error]]

\* Line 240: getPlaylist answers, or its request throws.
GetPlaylistReturns(c) ==
    /\ calls[c].pc = "getPlaylist"
    /\ \E error \in ProviderErrors \cup {""} :
           calls' = [calls EXCEPT ![c] =
               IF error # "" THEN Throws(@, error)
               ELSE [@ EXCEPT !.pc = "getPlaylistTracks",
                              !.total = Len(playlistTracks[calls[c].playlistId]),
                              !.providerCalls = @ + 1]]
    /\ UNCHANGED <<playlistTracks, profileCache, now, matchHistory, lastRun,
                   scoreTrack, scoreProfile, scoreResult, usePostgres, match_history,
                   jobs, oauth_states>>

\* Lines 241-248: getPlaylistTracks answers with the sample, or throws; an
\* empty sample is an error, otherwise the artists are requested.
GetPlaylistTracksReturns(c) ==
    /\ calls[c].pc = "getPlaylistTracks"
    /\ \E error \in ProviderErrors \cup {""} :
       \E tracks \in {getPlaylistTracks(calls[c].playlistId, SampleSize, playlistTracks)} :
           calls' = [calls EXCEPT ![c] =
               IF error # "" THEN Throws(@, error)
               ELSE IF Len(tracks) = 0 THEN Throws(@, NoTracksError)
               ELSE [@ EXCEPT !.pc = "getArtists", !.tracks = tracks,
                              !.providerCalls = @ + 1]]
    /\ UNCHANGED <<playlistTracks, profileCache, now, matchHistory, lastRun,
                   scoreTrack, scoreProfile, scoreResult, usePostgres, match_history,
                   jobs, oauth_states>>

\* Lines 248-283: getArtists answers, the profile is built and cached, with
\* no await in between; or getArtists throws.
GetArtistsReturns(c) ==
    /\ calls[c].pc = "getArtists"
    /\ \/ /\ \E error \in ProviderErrors :
                 calls' = [calls EXCEPT ![c] = Throws(@, error)]
          /\ UNCHANGED profileCache
       \/ \E profile \in {NewProfile(calls[c].playlistId, calls[c].total,
                                     enrichTracksWithGenres(calls[c].tracks))} :
            /\ profileCache' = setCachedProfile(profileCache, calls[c].playlistId,
                                                profile, now)
            /\ calls' = [d \in CacheCallers |->
                   IF d = c
                   THEN [calls[c] EXCEPT !.pc = "done", !.latest = TRUE,
                                         !.result = [ok |-> TRUE, profile |-> profile]]
                   ELSE IF calls[d].pc # "idle"
                           /\ calls[d].playlistId = calls[c].playlistId
                   THEN [calls[d] EXCEPT !.latest = FALSE]
                   ELSE calls[d]]
    /\ UNCHANGED <<playlistTracks, now, matchHistory, lastRun,
                   scoreTrack, scoreProfile, scoreResult, usePostgres, match_history,
                   jobs, oauth_states>>

\* The caller takes the profile, or catches the error (lines 312-315).
BuildReturns(c) ==
    /\ calls[c].pc = "done"
    /\ calls' = [calls EXCEPT ![c] = NoCall]
    /\ UNCHANGED <<playlistTracks, profileCache, now, matchHistory, lastRun,
                   scoreTrack, scoreProfile, scoreResult, usePostgres, match_history,
                   jobs, oauth_states>>

\* A track is added to a playlist at the provider.
EditPlaylist(p, t) ==
    /\ Len(playlistTracks[p]) < MaxPlaylistTracks
    /\ playlistTracks' = [playlistTracks EXCEPT ![p] = Append(@, t)]
    /\ UNCHANGED <<profileCache, now, matchHistory, lastRun,
                   scoreTrack, scoreProfile, scoreResult, usePostgres, match_history,
                   calls, jobs, oauth_states>>

Build == \E c \in CacheCallers, p \in CachePlaylists : BuildStart(c, p)

ProviderAnswers ==
    \E c \in CacheCallers :
        GetPlaylistReturns(c) \/ GetPlaylistTracksReturns(c) \/ GetArtistsReturns(c)

Return == \E c \in CacheCallers : BuildReturns(c)

Edit == \E p \in CachePlaylists : EditPlaylist(p, "s3")

\* p1 holds two tracks when the service starts.
InitCache ==
    /\ playlistTracks = [InitialPlaylistTracks EXCEPT !["p1"] = <<"s1", "s2">>]
    /\ profileCache = [p \in Playlists |-> NoEntry]
    /\ now = 0
    /\ matchHistory = InitialHistory
    /\ usePostgres = FALSE
    /\ match_history = {}
    /\ lastRun = NoRun
    /\ scoreTrack = [artistIds |-> <<>>, genres |-> <<>>, popularity |-> 0]
    /\ scoreProfile = [artistIds |-> {}, genres |-> <<>>, avgPopularity |-> 0]
    /\ scoreResult = NoResult
    /\ calls = [c \in CacheCallers |-> NoCall]
    /\ jobs = <<>>
    /\ oauth_states = {}

NextCache == Build \/ ProviderAnswers \/ Return \/ Edit \/ Tick

SpecCache == InitCache /\ [][NextCache]_vars

(***************************************************************************)
(* SpotifyClient.addTracksToPlaylist, one request at a time                *)
(***************************************************************************)

\* The longest URI list passed to addTracksToPlaylist.
MaxUris == 201

\* Chunks_EndInclusive takes the slice's end index as inclusive, so that a
\* chunk reaches one URI into the next, which slice(i, i + 100) does not.
Chunks_EndInclusive(trackUris) ==
    [k \in 1..((Len(trackUris) + ChunkSize - 1) \div ChunkSize) |->
        SubSeq(trackUris, (k - 1) * ChunkSize + 1,
               Min(k * ChunkSize + 1, Len(trackUris)))]

\* Lines 167-170: trackUris.slice(i, i + 100) for i = 0, 100, 200, ...
Chunks(trackUris) ==
    [k \in 1..((Len(trackUris) + ChunkSize - 1) \div ChunkSize) |->
        SubSeq(trackUris, (k - 1) * ChunkSize + 1,
               Min(k * ChunkSize, Len(trackUris)))]

\* addTracksToPlaylist(playlistId, trackUris) is called: nothing is sent for
\* an empty list; otherwise the request of the first chunk is sent.
\* submitted lists the requests sent so far, accepted those that succeeded.
AddTracksStart(playlistId, trackUris) ==
    /\ calls.pc = "idle"
    /\ calls' = [pc |-> IF Len(trackUris) = 0 THEN "done" ELSE "request",
                 playlistId |-> playlistId, trackUris |-> trackUris,
                 chunks |-> Chunks(trackUris),
                 submitted |-> IF Len(trackUris) = 0 THEN <<>>
                               ELSE <<Chunks(trackUris)[1]>>,
                 accepted |-> <<>>,
                 result |-> IF Len(trackUris) = 0 THEN [ok |-> TRUE] ELSE NoOutcome]
    /\ UNCHANGED <<playlistTracks, profileCache, now, matchHistory, lastRun,
                   scoreTrack, scoreProfile, scoreResult, usePostgres, match_history,
                   jobs, oauth_states>>

\* Lines 172-177: the pending request succeeds and the next chunk's request
\* is sent, or the call returns after the last one; or the request throws
\* and the call ends with its error.
ChunkAnswered ==
    /\ calls.pc = "request"
    /\ \E error \in FailureMessages \cup {""} :
           calls' =
               IF error # "" THEN Throws(calls, error)
               ELSE IF Len(calls.submitted) = Len(calls.chunks)
               THEN [calls EXCEPT !.pc = "done", !.result = [ok |-> TRUE],
                                  !.accepted = calls.submitted]
               ELSE [calls EXCEPT !.accepted = calls.submitted,
                                  !.submitted =
                                      Append(@, calls.chunks[Len(calls.submitted) + 1])]
    /\ UNCHANGED <<playlistTracks, profileCache, now, matchHistory, lastRun,
                   scoreTrack, scoreProfile, scoreResult, usePostgres, match_history,
                   jobs, oauth_states>>

\* The caller gets the result.
AddTracksReturns ==
    /\ calls.pc = "done"
    /\ calls' = NoCall
    /\ UNCHANGED <<playlistTracks, profileCache, now, matchHistory, lastRun,
                   scoreTrack, scoreProfile, scoreResult, usePostgres, match_history,
                   jobs, oauth_states>>

\* The URI lists: n distinct URIs, for each n up to MaxUris.
AddTracks == \E n \in 0..MaxUris : AddTracksStart("p1", [i \in 1..n |-> i])

InitChunks ==
    /\ playlistTracks = InitialPlaylistTracks
    /\ profileCache = [p \in Playlists |-> NoEntry]
    /\ now = 0
    /\ matchHistory = InitialHistory
    /\ usePostgres = FALSE
    /\ match_history = {}
    /\ lastRun = NoRun
    /\ scoreTrack = [artistIds |-> <<>>, genres |-> <<>>, popularity |-> 0]
    /\ scoreProfile = [artistIds |-> {}, genres |-> <<>>, avgPopularity |-> 0]
    /\ scoreResult = NoResult
    /\ calls = NoCall
    /\ jobs = <<>>
    /\ oauth_states = {}

NextChunks == AddTracks \/ ChunkAnswered \/ AddTracksReturns

SpecChunks == InitChunks /\ [][NextChunks]_vars

(***************************************************************************)
(* CronRunner and the scheduler store.  Here now counts days.  Each store  *)
(* call takes effect in one step, when it is answered; what autoOrganize   *)
(* and the history do in a job is in Spec (RunJob), and a job's body is    *)
(* represented here by its end, with or without an error.                  *)
(***************************************************************************)

\* The users with a scheduled job, in the order of scheduler.json, and the
\* calls of checkAndRunDueJobs that can be in progress at once.
CronUsers == <<"u1", "u2">>
Checks == {"check1", "check2"}

\* SchedulerStore.getJobsDueNow: the enabled jobs with nextRunAt <= now.
getJobsDueNow(allJobs, time) ==
    SelectSeq(CronUsers, LAMBDA u : allJobs[u].enabled /\ allJobs[u].nextRunAt <= time)

\* SchedulerStore.updateNextRun: nextRunAt moves on by intervalDays days.
updateNextRun(allJobs, userId) ==
    [allJobs EXCEPT ![userId].nextRunAt = @ + allJobs[userId].intervalDays]

\* SchedulerStore.disableJob
disableJob(allJobs, userId) == [allJobs EXCEPT ![userId].enabled = FALSE]

\* start(), or the interval timer, calls checkAndRunDueJobs: line 83 reads
\* the due jobs.
CheckStarts(k) ==
    /\ calls[k].pc = "idle"
    /\ calls' = [calls EXCEPT ![k] = [pc |-> "getJobsDueNow"]]
    /\ UNCHANGED jobs

\* Lines 83-92 and 99-108: getJobsDueNow answers; with no due job the check
\* ends, otherwise runJob starts for the first one.  job is the user whose
\* job is running, rest the due jobs still to run.
DueJobsRead(k) ==
    /\ calls[k].pc = "getJobsDueNow"
    /\ \E dueJobs \in {getJobsDueNow(jobs, now)} :
           calls' = [calls EXCEPT ![k] =
               IF Len(dueJobs) = 0 THEN NoCall
               ELSE [pc |-> "isAuthenticated", job |-> Head(dueJobs),
                     rest |-> Tail(dueJobs)]]
    /\ UNCHANGED jobs

\* Lines 108-132: isAuthenticated answers.
AuthAnswered(k) ==
    /\ calls[k].pc = "isAuthenticated"
    /\ \E isAuth \in BOOLEAN :
           calls' = [calls EXCEPT ![k].pc =
                        IF isAuth THEN "autoOrganize" ELSE "disableJob"]
    /\ UNCHANGED jobs

\* Lines 121-151 and 166-171: the job's work ends, with a result or with an
\* error; in both cases updateNextRun is called.
BodyEnds(k) ==
    /\ calls[k].pc = "autoOrganize"
    /\ calls' = [calls EXCEPT ![k].pc = "updateNextRun"]
    /\ UNCHANGED jobs

\* Lines 112-113, 151-165 and 171-173: the store has disabled the job, or
\* moved its next run, and runJob returns.  dueAtReturn tells whether the
\* job is due at that time.
StoreAnswers(k) ==
    /\ calls[k].pc \in {"disableJob", "updateNextRun"}
    /\ jobs' = IF calls[k].pc = "disableJob" THEN disableJob(jobs, calls[k].job)
               ELSE updateNextRun(jobs, calls[k].job)
    /\ calls' = [calls EXCEPT ![k] =
                    [pc |-> "returned", job |-> calls[k].job, rest |-> calls[k].rest,
                     returnedAt |-> now,
                     dueAtReturn |-> calls[k].job
                                        \in Range(getJobsDueNow(jobs', now))]]

\* Lines 91-93: the loop goes on with the next due job, or the check ends.
NextJob(k) ==
    /\ calls[k].pc = "returned"
    /\ calls' = [calls EXCEPT ![k] =
                    IF calls[k].rest = <<>> THEN NoCall
                    ELSE [pc |-> "isAuthenticated", job |-> Head(calls[k].rest),
                          rest |-> Tail(calls[k].rest)]]
    /\ UNCHANGED jobs

Cron ==
    /\ \E k \in Checks :
           \/ CheckStarts(k) \/ DueJobsRead(k) \/ AuthAnswered(k)
           \/ BodyEnds(k) \/ StoreAnswers(k) \/ NextJob(k)
    /\ UNCHANGED <<playlistTracks, profileCache, now, matchHistory, lastRun,
                   scoreTrack, scoreProfile, scoreResult, usePostgres, match_history,
                   oauth_states>>

\* scheduler.json as an earlier run of the service left it: u1's daily job is
\* due at the start, u2's job, every two days, the day after.
InitCron ==
    /\ playlistTracks = InitialPlaylistTracks
    /\ profileCache = [p \in Playlists |-> NoEntry]
    /\ now = 0
    /\ matchHistory = InitialHistory
    /\ usePostgres = FALSE
    /\ match_history = {}
    /\ lastRun = NoRun
    /\ scoreTrack = [artistIds |-> <<>>, genres |-> <<>>, popularity |-> 0]
    /\ scoreProfile = [artistIds |-> {}, genres |-> <<>>, avgPopularity |-> 0]
    /\ scoreResult = NoResult
    /\ calls = [k \in Checks |-> NoCall]
    /\ jobs = [u \in Range(CronUsers) |->
                  IF u = "u1"
                  THEN [nextRunAt |-> 0, intervalDays |-> 1, enabled |-> TRUE]
                  ELSE [nextRunAt |-> 1, intervalDays |-> 2, enabled |-> TRUE]]
    /\ oauth_states = {}

NextCron == Cron \/ Tick

SpecCron == InitCron /\ [][NextCron]_vars

(***************************************************************************)
(* The OAuth states of the web server in PostgreSQL mode: GET              *)
(* /api/auth/url saves a state with its code verifier, GET                 *)
(* /api/auth/callback consumes it.  Each query of the pool takes effect    *)
(* when it is answered.                                                    *)
(***************************************************************************)

\* The values of generateState, and the callback requests that can be in
\* progress at once.
OAuthStates == {"st1", "st2"}
Callbacks == {"req1", "req2"}

\* GET /api/auth/url and OAuthStateStore.saveState: a new state is saved with
\* its verifier.  generateState is random: a value comes again only once
\* nothing refers to it any more.
AuthUrl ==
    \E state \in OAuthStates, code_verifier \in {"v1", "v2"} :
        /\ \A row \in oauth_states : row.state # state
        /\ \A c \in Callbacks :
               IF calls[c].pc = "idle" THEN TRUE ELSE calls[c].state # state
        /\ oauth_states' = {row \in oauth_states : row.state # state}
                              \cup {[state |-> state, code_verifier |-> code_verifier]}
        /\ UNCHANGED calls

\* GET /api/auth/callback with a state: consumeState sends its SELECT.
Callback(c) ==
    /\ calls[c].pc = "idle"
    /\ \E state \in OAuthStates :
           calls' = [calls EXCEPT ![c] = [pc |-> "select", state |-> state]]
    /\ UNCHANGED oauth_states

\* consumeState, lines 108-118: the SELECT answers; with no row the call
\* returns null, otherwise the DELETE is sent.
SelectAnswers(c) ==
    /\ calls[c].pc = "select"
    /\ \E rows \in {{row \in oauth_states : row.state = calls[c].state}} :
           calls' = [calls EXCEPT ![c] =
               IF rows = {}
               THEN [pc |-> "returned", state |-> calls[c].state, verifier |-> "null"]
               ELSE [pc |-> "delete", state |-> calls[c].state, rows |-> rows]]
    /\ UNCHANGED oauth_states

\* consumeState, lines 118-120: the DELETE answers and the call returns the
\* verifier of the row it had selected.
DeleteAnswers(c) ==
    /\ calls[c].pc = "delete"
    /\ oauth_states' = {row \in oauth_states : row.state # calls[c].state}
    /\ \E row \in calls[c].rows :
           calls' = [calls EXCEPT ![c] =
               [pc |-> "returned", state |-> calls[c].state,
                verifier |-> row.code_verifier]]

\* Lines 396-398 and after: the request is answered, with invalid_state when
\* there is no verifier.
CallbackReturns(c) ==
    /\ calls[c].pc = "returned"
    /\ calls' = [calls EXCEPT ![c] = NoCall]
    /\ UNCHANGED oauth_states

InitOAuth ==
    /\ playlistTracks = InitialPlaylistTracks
    /\ profileCache = [p \in Playlists |-> NoEntry]
    /\ now = 0
    /\ matchHistory = InitialHistory
    /\ usePostgres = TRUE
    /\ match_history = {}
    /\ lastRun = NoRun
    /\ scoreTrack = [artistIds |-> <<>>, genres |-> <<>>, popularity |-> 0]
    /\ scoreProfile = [artistIds |-> {}, genres |-> <<>>, avgPopularity |-> 0]
    /\ scoreResult = NoResult
    /\ calls = [c \in Callbacks |-> NoCall]
    /\ jobs = <<>>
    /\ oauth_states = {}

NextOAuth ==
    /\ \/ AuthUrl
       \/ \E c \in Callbacks :
              Callback(c) \/ SelectAnswers(c) \/ DeleteAnswers(c) \/ CallbackReturns(c)
    /\ UNCHANGED <<playlistTracks, profileCache, now, matchHistory, lastRun,
                   scoreTrack, scoreProfile, scoreResult, usePostgres, match_history,
                   jobs>>

SpecOAuth == InitOAuth /\ [][NextOAuth]_vars

(***************************************************************************)
(* Properties                                                              *)
(***************************************************************************)

\* A run that applies its matches has ended and its reply is pending.
Applied == lastRun.op \in {"organize", "sync-now", "runJob"} /\ ~lastRun.dryRun

\* The matches of the last run whose destination is playlist p.
MatchesTo(p) == SelectSeq(lastRun.matches, LAMBDA m : m.playlistId = p)

\* C1, as stated: a liked track is matched only if its best composite score
\* is strictly above the threshold, so no match of a run has a score equal
\* to the run's threshold.
C1_MatchedOnlyStrictlyAbove ==
    ~Idle => \A i \in DOMAIN lastRun.matches :
                 lastRun.matches[i].score > lastRun.threshold

\* C1, amended: a liked track is matched exactly when its score against some
\* usable profile is at least the threshold; a track whose best score equals
\* the threshold is matched.
C1_MatchedIffAtLeastThreshold ==
    ~Idle =>
        \A i \in DOMAIN lastRun.songs :
            (\E k \in DOMAIN lastRun.matches :
                 lastRun.matches[k].trackId = lastRun.songs[i].id)
            <=> (\E j \in DOMAIN lastRun.profiles :
                     calculateMatchScore(lastRun.songs[i], lastRun.profiles[j]).score
                         >= lastRun.threshold)

\* A run has matched a track whose score equals the threshold.
C1_Witness ==
    /\ ~Idle
    /\ \E i \in DOMAIN lastRun.matches : lastRun.matches[i].score = lastRun.threshold

\* C2: the score of each match is the maximum of the track's composite score
\* over the usable profiles, and the match's playlist attains that maximum.
C2_MatchIsBestProfile ==
    ~Idle =>
        \A k \in DOMAIN lastRun.matches :
            \A i \in DOMAIN lastRun.songs :
                lastRun.songs[i].id = lastRun.matches[k].trackId =>
                    /\ \A j \in DOMAIN lastRun.profiles :
                           calculateMatchScore(lastRun.songs[i],
                                               lastRun.profiles[j]).score
                               <= lastRun.matches[k].score
                    /\ \E j \in DOMAIN lastRun.profiles :
                           /\ lastRun.profiles[j].playlistId
                                  = lastRun.matches[k].playlistId
                           /\ calculateMatchScore(lastRun.songs[i],
                                                  lastRun.profiles[j]).score
                                  = lastRun.matches[k].score

\* A track was matched to a playlist that is not the first usable profile,
\* and the first profile clears the threshold with a lower score.
C2_Witness ==
    /\ ~Idle
    /\ Len(lastRun.profiles) >= 2
    /\ \E k \in DOMAIN lastRun.matches :
           /\ lastRun.matches[k].playlistId # lastRun.profiles[1].playlistId
           /\ \E i \in DOMAIN lastRun.songs :
                  /\ lastRun.songs[i].id = lastRun.matches[k].trackId
                  /\ calculateMatchScore(lastRun.songs[i], lastRun.profiles[1]).score
                         >= lastRun.threshold
                  /\ calculateMatchScore(lastRun.songs[i], lastRun.profiles[1]).score
                         < lastRun.matches[k].score

\* C3: the composite score returned by calculateMatchScore lies in [0, 1].
C3_ScoreInUnitInterval ==
    scoreResult.done =>
        /\ scoreResult.result.score >= 0
        /\ scoreResult.result.score <= 100

\* C4: each of the four sub-scores lies in [0, 1], the weighted genre score
\* included when several genres of the track match.
C4_SubScoresInUnitInterval ==
    scoreResult.done =>
        /\ scoreResult.artistScore >= 0 /\ scoreResult.artistScore <= Unit
        /\ scoreResult.genreScore >= 0 /\ scoreResult.genreScore <= Unit
        /\ scoreResult.weightedGenre >= 0 /\ scoreResult.weightedGenre <= Unit
        /\ scoreResult.popSimilarity >= 0 /\ scoreResult.popSimilarity <= Unit

\* C5: the score is 0.35 * artistOverlap + 0.25 * genreOverlap
\* + 0.25 * weightedGenreScore + 0.15 * popularitySimilarity over the
\* unrounded sub-scores, rounded to the nearest hundredth; each sub-score of
\* the breakdown is its own unrounded value rounded to the nearest hundredth.
C5_ScoreIsRoundedWeightedSum ==
    scoreResult.done =>
        /\ 2 * Abs(scoreResult.result.score * Unit
                   - (35 * scoreResult.artistScore + 25 * scoreResult.genreScore
                      + 25 * scoreResult.weightedGenre
                      + 15 * scoreResult.popSimilarity)) <= Unit
        /\ 2 * Abs(scoreResult.result.breakdown.artistOverlap * Unit
                   - 100 * scoreResult.artistScore) <= Unit
        /\ 2 * Abs(scoreResult.result.breakdown.genreOverlap * Unit
                   - 100 * scoreResult.genreScore) <= Unit
        /\ 2 * Abs(scoreResult.result.breakdown.weightedGenreScore * Unit
                   - 100 * scoreResult.weightedGenre) <= Unit
        /\ 2 * Abs(scoreResult.result.breakdown.popularitySimilarity * Unit
                   - 100 * scoreResult.popSimilarity) <= Unit

\* A score that differs from the weighted sum of the rounded breakdown.
C5_Witness ==
    /\ scoreResult.done
    /\ scoreResult.result.breakdown.artistOverlap > 0
    /\ scoreResult.result.breakdown.weightedGenreScore > 0
    /\ 2 * Abs(scoreResult.result.score * 100
               - (35 * scoreResult.result.breakdown.artistOverlap
                  + 25 * scoreResult.result.breakdown.genreOverlap
                  + 25 * scoreResult.result.breakdown.weightedGenreScore
                  + 15 * scoreResult.result.breakdown.popularitySimilarity)) > 100

\* C6: matchSongsToPlaylists (GET /api/match) and autoOrganize with
\* dryRun = true make no call that adds tracks to a playlist, and the
\* playlists' contents are the same after the call as before it.  (The
\* matcher holds no reference to removeTracksFromPlaylist.)
C6_DryRunChangesNothing ==
    (lastRun.op \in {"match", "organize"} /\ lastRun.dryRun)
        => (lastRun.addCalls = <<>> /\ playlistTracks = lastRun.playlistsBefore)

\* A dry run of autoOrganize that found matches for two playlists.
C6_Witness ==
    /\ lastRun.op = "organize"
    /\ lastRun.dryRun
    /\ Len(lastRun.added) >= 2
    /\ lastRun.addCalls = <<>>

\* C7: autoOrganize with dryRun = false calls addTracksToPlaylist exactly
\* once for each distinct destination playlist of the matches, with exactly
\* the URIs of the tracks matched to it, and not at all for a playlist no
\* track was matched to.
C7_OneAddPerDestination ==
    Applied =>
        /\ \A p \in Playlists :
               Cardinality({k \in DOMAIN lastRun.addCalls :
                               lastRun.addCalls[k].playlistId = p})
                   = IF MatchesTo(p) # <<>> THEN 1 ELSE 0
        /\ \A k \in DOMAIN lastRun.addCalls :
               lastRun.addCalls[k].trackUris
                   = [i \in DOMAIN MatchesTo(lastRun.addCalls[k].playlistId) |->
                         TrackUri(MatchesTo(lastRun.addCalls[k].playlistId)[i].trackId)]

\* A run applied matches to two playlists, two tracks going to one of them.
C7_Witness ==
    /\ Applied
    /\ Len(lastRun.addCalls) = 2
    /\ \E k \in DOMAIN lastRun.addCalls : Len(lastRun.addCalls[k].trackUris) = 2
    /\ \E p \in Playlists : MatchesTo(p) = <<>>

\* C8: when the add for one playlist is rejected, each match of that
\* playlist yields an unmatched entry whose reason is the failure's message
\* and the playlist is absent from added; every other destination playlist
\* is still added, and the run completes with its result.
C8_FailedAddBecomesUnmatched ==
    Applied =>
        \A p \in Playlists :
            MatchesTo(p) # <<>> =>
                IF p \in DOMAIN lastRun.failing
                THEN /\ \A a \in DOMAIN lastRun.added : lastRun.added[a].playlistId # p
                     /\ \A i \in DOMAIN MatchesTo(p) :
                            \E x \in DOMAIN lastRun.unmatched :
                                /\ lastRun.unmatched[x].trackName
                                       = MatchesTo(p)[i].trackName
                                /\ lastRun.unmatched[x].reason = lastRun.failing[p]
                ELSE /\ \E k \in DOMAIN lastRun.addCalls :
                            lastRun.addCalls[k].playlistId = p
                     /\ \E a \in DOMAIN lastRun.added :
                            /\ lastRun.added[a].playlistId = p
                            /\ lastRun.added[a].tracks
                                   = [i \in DOMAIN MatchesTo(p) |->
                                         MatchesTo(p)[i].trackName]

\* The add for the first destination was rejected, the add for a later
\* destination went through.
C8_Witness ==
    /\ Applied
    /\ Len(lastRun.addCalls) = 2
    /\ ~lastRun.addCalls[1].ok
    /\ lastRun.addCalls[2].ok
    /\ Len(lastRun.added) = 1

\* C9: in a run of runJob or of POST /api/sync-now, a track that is in the
\* user's match history when the run starts is not passed to
\* addTracksToPlaylist.
C9_MatchedTracksNotAddedAgain ==
    lastRun.op \in {"runJob", "sync-now"} =>
        \A k \in DOMAIN lastRun.addCalls :
            \A i \in DOMAIN lastRun.addCalls[k].trackUris :
                lastRun.addCalls[k].trackUris[i][2] \notin lastRun.matchedBefore

\* A run of runJob or sync-now adds, with success, a track that an earlier
\* run recorded and that is already in the destination playlist.
C9_Witness ==
    /\ lastRun.op \in {"runJob", "sync-now"}
    /\ \E k \in DOMAIN lastRun.addCalls :
           /\ lastRun.addCalls[k].ok
           /\ \E i \in DOMAIN lastRun.addCalls[k].trackUris :
                  /\ lastRun.addCalls[k].trackUris[i][2] \in lastRun.matchedBefore
                  /\ lastRun.addCalls[k].trackUris[i][2]
                         \in Range(lastRun.playlistsBefore[lastRun.addCalls[k].playlistId])

\* C10: a match record is persisted only if the add for its destination
\* playlist succeeded.
C10_RecordedOnlyIfAdded ==
    Applied =>
        \A r \in DOMAIN lastRun.recorded :
            \E k \in DOMAIN lastRun.addCalls :
                /\ lastRun.addCalls[k].playlistId = lastRun.recorded[r].playlistId
                /\ lastRun.addCalls[k].ok

\* The playlists getUserPlaylists returned in the last run that the run's
\* user owns and that are not empty.
EligiblePlaylists ==
    LET returned == getUserPlaylists(lastRun.userId, lastRun.playlistLimit,
                                     lastRun.playlistsBefore)
    IN  {returned[i].id : i \in {j \in DOMAIN returned :
                                    /\ returned[j].owner = lastRun.userId
                                    /\ returned[j].total # 0}}

\* C11: every playlistId of a match, and every playlistId autoOrganize
\* passes to addTracksToPlaylist, is a playlist getUserPlaylists returned in
\* that run, owned by the current user, with a non-zero track total.
C11_DestinationsAreOwnPlaylists ==
    ~Idle =>
        /\ \A k \in DOMAIN lastRun.matches :
               lastRun.matches[k].playlistId \in EligiblePlaylists
        /\ \A k \in DOMAIN lastRun.addCalls :
               lastRun.addCalls[k].playlistId \in EligiblePlaylists

\* A run with playlistLimit = 1 matched tracks while a live cache entry
\* existed for an owned playlist that the run's list did not return.
C11_Witness ==
    /\ ~Idle
    /\ lastRun.playlistLimit = 1
    /\ lastRun.matches # <<>>
    /\ \E p \in LiveEntries(profileCache, now) :
           PlaylistOwner[p] = lastRun.userId /\ p \notin EligiblePlaylists

\* C12: in a run in which no profile is usable, matches is empty and
\* unmatched holds exactly one entry per fetched liked track, in order, each
\* with the reason "No playlists available for matching".
C12_NoProfilesAllUnmatched ==
    (~Idle /\ ~lastRun.failed /\ lastRun.profiles = <<>>) =>
        /\ lastRun.matches = <<>>
        /\ Len(lastRun.unmatched) = Len(lastRun.songs)
        /\ \A i \in DOMAIN lastRun.songs :
               lastRun.unmatched[i] = [trackName |-> lastRun.songs[i].name,
                                       reason |-> NoPlaylistsReason]

\* The only listed playlist's build failed and several liked tracks were
\* fetched.
C12_Witness ==
    /\ ~Idle
    /\ ~lastRun.failed
    /\ lastRun.profiles = <<>>
    /\ DOMAIN lastRun.fetchFails # {}
    /\ Len(lastRun.songs) > 1
    /\ Len(lastRun.unmatched) = Len(lastRun.songs)

\* The playlists whose build was attempted in the last run and threw a
\* provider error: the fetch fails and no live cache entry spared it.
FailedBuilds ==
    {p \in EligiblePlaylists \cap DOMAIN lastRun.fetchFails :
        p \notin LiveEntries(profileCache, now)}

\* C13: when buildPlaylistProfile fails for an owned playlist, the call
\* returns a result; the usable profiles are those of the owned non-empty
\* playlists of the list other than the failed ones, and each of them is
\* scored against every liked track: a track that clears the threshold
\* against one of them is matched with at least that score.
C13_FailedBuildExcludesOnlyThatPlaylist ==
    (~Idle /\ ~lastRun.failed) =>
        /\ {lastRun.profiles[j].playlistId : j \in DOMAIN lastRun.profiles}
               = EligiblePlaylists \ FailedBuilds
        /\ FailedBuilds # {} =>
               \A i \in DOMAIN lastRun.songs, j \in DOMAIN lastRun.profiles :
                   calculateMatchScore(lastRun.songs[i], lastRun.profiles[j]).score
                       >= lastRun.threshold
                   => \E k \in DOMAIN lastRun.matches :
                          /\ lastRun.matches[k].trackId = lastRun.songs[i].id
                          /\ lastRun.matches[k].score
                                 >= calculateMatchScore(lastRun.songs[i],
                                                        lastRun.profiles[j]).score

\* The build of the first owned playlist failed, and a track was matched to
\* a later playlist of the list.
C13_Witness ==
    /\ ~Idle
    /\ ~lastRun.failed
    /\ UserPlaylists[lastRun.userId][1] \in FailedBuilds
    /\ lastRun.profiles # <<>>
    /\ lastRun.matches # <<>>
    /\ Len(lastRun.songs) > 1

\* C14, as stated: when a provider call of the run throws an authentication
\* error, a call made while building a profile included, the whole call
\* fails with that error and returns no result.
C14_AuthErrorFailsTheCall ==
    ~Idle =>
        \A p \in FailedBuilds :
            lastRun.fetchFails[p] \in AuthErrors
                => (lastRun.failed /\ lastRun.error = lastRun.fetchFails[p])

\* A profile build threw an authentication error and the run returned a
\* result with matches.
C14_Witness ==
    /\ ~Idle
    /\ ~lastRun.failed
    /\ \E p \in FailedBuilds : lastRun.fetchFails[p] \in AuthErrors
    /\ lastRun.matches # <<>>

\* No usable profile of the last run clears the threshold for a song.
NoneClears(song) ==
    \A j \in DOMAIN lastRun.profiles :
        calculateMatchScore(song, lastRun.profiles[j]).score < lastRun.threshold

\* C15: with at least one usable profile, a track for which no profile clears
\* the threshold has the 'no genre data' reason exactly when it has no genre;
\* otherwise its reason is 'Best score (X) below threshold (Y)' with X the
\* maximum of its score over the usable profiles and Y the caller's threshold.
C15_UnmatchedReason ==
    (~Idle /\ ~lastRun.failed /\ lastRun.profiles # <<>>) =>
        \A i \in DOMAIN lastRun.songs :
            NoneClears(lastRun.songs[i]) =>
                \E x \in DOMAIN lastRun.unmatched :
                    /\ lastRun.unmatched[x].trackName = lastRun.songs[i].name
                    /\ lastRun.unmatched[x].reason
                           = IF lastRun.songs[i].genres = <<>>
                             THEN NoGenreReason
                             ELSE BelowThresholdReason(
                                      BestScore(lastRun.songs[i], lastRun.profiles),
                                      lastRun.threshold)

\* A run with two usable profiles left a track without genres unmatched, and
\* a track with genres whose best score is not its score against the first
\* profile.
C15_Witness ==
    /\ ~Idle
    /\ Len(lastRun.profiles) >= 2
    /\ \E i \in DOMAIN lastRun.songs :
           /\ lastRun.songs[i].genres = <<>>
           /\ NoneClears(lastRun.songs[i])
    /\ \E i \in DOMAIN lastRun.songs :
           /\ lastRun.songs[i].genres # <<>>
           /\ NoneClears(lastRun.songs[i])
           /\ calculateMatchScore(lastRun.songs[i], lastRun.profiles[1]).score
                  < BestScore(lastRun.songs[i], lastRun.profiles)
           /\ \E x \in DOMAIN lastRun.unmatched :
                  lastRun.unmatched[x].trackName = lastRun.songs[i].name

\* C16: the matches of a run are ordered by non-increasing score, in the
\* result of matchSongsToPlaylists and in the one autoOrganize passes on.
C16_MatchesSortedByScore ==
    ~Idle =>
        \A k \in DOMAIN lastRun.matches :
            k < Len(lastRun.matches)
                => lastRun.matches[k].score >= lastRun.matches[k + 1].score

\* The sort moved a match: a track liked later than another, with a strictly
\* higher score, comes before it in the matches.
C16_Witness ==
    /\ ~Idle
    /\ \E k, l \in DOMAIN lastRun.matches :
           /\ k < l
           /\ lastRun.matches[k].score > lastRun.matches[l].score
           /\ \E i, j \in DOMAIN lastRun.songs :
                  /\ i > j
                  /\ lastRun.songs[i].id = lastRun.matches[k].trackId
                  /\ lastRun.songs[j].id = lastRun.matches[l].trackId

\* The track ids getMatchedTrackIds returns for u, from the store in use.
MatchedIds(history, rows, u) ==
    IF usePostgres THEN PgGetMatchedTrackIds(rows, u)
    ELSE getMatchedTrackIds(history, u)

\* C17: after any sequence of addMatches and removeMatch calls, the file
\* store and the PostgreSQL store hold at most one record per track id and
\* user, also when one batch carries the same track id twice.
C17_OneRecordPerTrack ==
    /\ \A u \in Users :
           \A i, j \in DOMAIN matchHistory[u].matches :
               matchHistory[u].matches[i].trackId = matchHistory[u].matches[j].trackId
                   => i = j
    /\ \A r1, r2 \in match_history :
           (r1.userId = r2.userId /\ r1.trackId = r2.trackId) => r1 = r2

\* addMatches received a batch with the same new track id twice, for two
\* playlists, and the track is now recorded.
C17_Witness ==
    /\ lastRun.op = "addMatches"
    /\ Len(lastRun.records) = 2
    /\ lastRun.records[1].trackId = lastRun.records[2].trackId
    /\ lastRun.records[1].playlistId # lastRun.records[2].playlistId
    /\ lastRun.records[1].trackId
           \notin MatchedIds(lastRun.historyBefore, lastRun.rowsBefore, lastRun.userId)
    /\ lastRun.records[1].trackId
           \in MatchedIds(matchHistory, match_history, lastRun.userId)

\* C18, as stated: addMatches with a track id that is already recorded
\* leaves the existing record (playlist id, playlist name, matchedAt) as it
\* was, in the file store and in the PostgreSQL store.
C18_ExistingRecordUnchanged ==
    lastRun.op = "addMatches" =>
        /\ \A i \in DOMAIN lastRun.historyBefore[lastRun.userId].matches :
               lastRun.historyBefore[lastRun.userId].matches[i]
                   \in Range(matchHistory[lastRun.userId].matches)
        /\ \A r \in lastRun.rowsBefore : r \in match_history

\* The PostgreSQL store replaced the playlist and the time of a recorded
\* track.
C18_Witness ==
    /\ lastRun.op = "addMatches"
    /\ usePostgres
    /\ \E r \in lastRun.rowsBefore :
           \E x \in match_history :
               /\ x.userId = r.userId /\ x.trackId = r.trackId
               /\ x.playlistId # r.playlistId
               /\ x.matchedAt > r.matchedAt

\* C19: a move-track request with a fromPlaylistId whose provider removal
\* succeeds deletes the requesting user's record of that track and nothing
\* else: the id leaves getMatchedTrackIds, a later addMatches records it
\* again, the user's other records and the other users' records stay; when
\* the provider's removal fails, the history is unchanged.
C19_MoveRemovesRecord ==
    (lastRun.op = "move-track" /\ lastRun.trackId # Absent
                               /\ lastRun.fromPlaylistId # Absent) =>
        IF lastRun.fails = "remove"
        THEN /\ lastRun.status = 500
             /\ matchHistory = lastRun.historyBefore
             /\ match_history = lastRun.rowsBefore
             /\ playlistTracks = lastRun.playlistsBefore
        ELSE /\ lastRun.trackId
                    \notin MatchedIds(matchHistory, match_history, lastRun.userId)
             /\ \A u \in Users :
                    matchHistory[u].matches
                        = SelectSeq(lastRun.historyBefore[u].matches,
                              LAMBDA m : ~(u = lastRun.userId
                                           /\ m.trackId = lastRun.trackId))
             /\ match_history
                    = {r \in lastRun.rowsBefore :
                          ~(r.userId = lastRun.userId /\ r.trackId = lastRun.trackId)}
             /\ \A r \in NewRecords(now) :
                    r.trackId = lastRun.trackId =>
                        IF usePostgres
                        THEN Row(lastRun.userId, r)
                                 \in PgAddMatches(match_history, lastRun.userId, <<r>>)
                        ELSE r \in Range(addMatches(matchHistory, lastRun.userId,
                                                    <<r>>)[lastRun.userId].matches)

\* A move removed the user's record of a track while the user held a record
\* of another track and another user a record of the same track.
C19_Witness ==
    /\ lastRun.op = "move-track"
    /\ lastRun.fromPlaylistId # Absent
    /\ lastRun.status = 200
    /\ lastRun.trackId
           \in MatchedIds(lastRun.historyBefore, lastRun.rowsBefore, lastRun.userId)
    /\ MatchedIds(matchHistory, match_history, lastRun.userId) # {}
    /\ \E u \in Users \ {lastRun.userId} :
           lastRun.trackId \in MatchedIds(matchHistory, match_history, u)

\* C20: jaccardSimilarity(A, B) is |A \cap B| / |A \cup B| when one of the
\* sets is not empty and 0 when both are empty; it is symmetric, 1 for equal
\* non-empty sets, 0 for disjoint sets, and lies in [0, 1].
C20_JaccardSimilarity ==
    scoreResult.done =>
        /\ (scoreTrack = {} /\ scoreProfile = {}) => scoreResult.result = 0
        /\ (scoreTrack # {} \/ scoreProfile # {}) =>
               scoreResult.result * Cardinality(scoreTrack \cup scoreProfile)
                   = Cardinality(scoreTrack \cap scoreProfile) * Unit
        /\ scoreResult.result = scoreResult.exchanged
        /\ (scoreTrack = scoreProfile /\ scoreTrack # {}) => scoreResult.result = Unit
        /\ scoreTrack \cap scoreProfile = {} => scoreResult.result = 0
        /\ scoreResult.result >= 0
        /\ scoreResult.result <= Unit

\* Two sets that overlap without one containing the other: the similarity is
\* strictly between 0 and 1.
C20_Witness ==
    /\ scoreResult.done
    /\ scoreTrack \cap scoreProfile # {}
    /\ scoreTrack \ scoreProfile # {}
    /\ scoreProfile \ scoreTrack # {}
    /\ Cardinality(scoreTrack) # Cardinality(scoreProfile)
    /\ scoreResult.result > 0
    /\ scoreResult.result < Unit

\* The number of entries of the track's artist list that are in the
\* playlist's artist set.
MatchCount == Cardinality({i \in DOMAIN scoreTrack : scoreTrack[i] \in scoreProfile})

\* C21: artistOverlapScore is 0 when the track's artist list is empty, when
\* the playlist's artist set is empty, or when no artist of the track is in
\* the set; otherwise it is min(1, matchCount / trackArtistCount + 0.5): 1
\* when at least half of the track's artists are in the set, and strictly
\* between 0.5 and 1 otherwise.
C21_ArtistOverlapScore ==
    scoreResult.done =>
        IF Len(scoreTrack) = 0 \/ scoreProfile = {} \/ MatchCount = 0
        THEN scoreResult.result = 0
        ELSE /\ 2 * Len(scoreTrack) * scoreResult.result
                    = Min(2 * Len(scoreTrack) * Unit,
                          (2 * MatchCount + Len(scoreTrack)) * Unit)
             /\ 2 * MatchCount >= Len(scoreTrack) => scoreResult.result = Unit
             /\ 2 * MatchCount < Len(scoreTrack) =>
                    (2 * scoreResult.result > Unit /\ scoreResult.result < Unit)

\* One artist of three is in the playlist: the score is 1/3 + 1/2.
C21_Witness ==
    /\ scoreResult.done
    /\ Len(scoreTrack) = 3
    /\ MatchCount = 1
    /\ 6 * scoreResult.result = 5 * Unit

\* C22: for x, y in 0..100, popularitySimilarity(x, y) = max(0, 1 - |x-y|/40):
\* symmetric, 1 exactly when x = y, 0.5 at a difference of 20, 0 exactly when
\* |x-y| >= 40, and lower by 1/40 for each point of difference below 40.
C22_PopularitySimilarity ==
    scoreResult.done =>
        /\ 40 * scoreResult.result
               = Max(0, (40 - Abs(scoreTrack - scoreProfile)) * Unit)
        /\ scoreResult.result = scoreResult.exchanged
        /\ scoreResult.result = Unit <=> scoreTrack = scoreProfile
        /\ Abs(scoreTrack - scoreProfile) = 20 => 2 * scoreResult.result = Unit
        /\ scoreResult.result = 0 <=> Abs(scoreTrack - scoreProfile) >= 40

\* The track is less popular than the playlist, by less than 40 points and
\* not by 20.
C22_Witness ==
    /\ scoreResult.done
    /\ scoreTrack < scoreProfile
    /\ scoreProfile - scoreTrack = 30
    /\ 4 * scoreResult.result = Unit

\* The entry e is at most the TTL old at time.
Fresh(e, time) == e.present /\ time - e.cachedAt <= CACHE_TTL_MS

\* The step is the lookup that starts a call of buildPlaylistProfile by c.
Lookup(c) == calls[c].pc = "idle" /\ calls'[c].pc # "idle"

\* The step ends c's build with a profile.
BuildSucceeds(c) ==
    calls[c].pc = "getArtists" /\ calls'[c].pc = "done" /\ calls'[c].result.ok

\* The step ends c's build with an error.
BuildFails(c) ==
    calls[c].pc \notin {"idle", "done"} /\ calls'[c].pc = "done"
        /\ ~calls'[c].result.ok

\* The cache entry a build of c's sample, finished at this time, leaves.
BuiltEntry(c) ==
    [present |-> TRUE,
     profile |-> NewProfile(calls[c].playlistId, calls[c].total,
                            enrichTracksWithGenres(calls[c].tracks)),
     cachedAt |-> now]

\* C23: buildPlaylistProfile returns the cached profile, sending no provider
\* request, exactly when an entry of the playlist exists whose age, counted
\* from the build of its profile, is at most the TTL, and a hit leaves the
\* entry as it is; a lookup that finds an older entry deletes it, and the
\* build that follows sends provider requests and puts the new profile,
\* stamped with the time of the build, in the entry's place.
C23_CachedWithinTtl ==
    [][\A c \in CacheCallers :
          /\ Lookup(c) =>
                 /\ calls'[c].hit <=> Fresh(profileCache[calls'[c].playlistId], now)
                 /\ calls'[c].hit <=> calls'[c].providerCalls = 0
                 /\ calls'[c].hit =>
                        /\ calls'[c].pc = "done"
                        /\ calls'[c].result
                               = [ok |-> TRUE,
                                  profile |-> profileCache[calls'[c].playlistId].profile]
                        /\ profileCache' = profileCache
                 /\ ~calls'[c].hit =>
                        /\ calls'[c].pc = "getPlaylist"
                        /\ profileCache'
                               = [profileCache EXCEPT ![calls'[c].playlistId] = NoEntry]
          /\ BuildSucceeds(c) =>
                 /\ ~calls[c].hit
                 /\ calls[c].providerCalls > 0
                 /\ calls'[c].result.profile = BuiltEntry(c).profile
                 /\ profileCache'[calls[c].playlistId] = BuiltEntry(c)
          /\ \A p \in Playlists :
                 (profileCache'[p].present /\ profileCache[p].present
                      /\ profileCache'[p].cachedAt # profileCache[p].cachedAt)
                     => \E d \in CacheCallers :
                            BuildSucceeds(d) /\ calls[d].playlistId = p]_vars

\* One call was answered from an entry exactly one TTL old; later another
\* call found the same entry, now older than the TTL, and put the profile of
\* the playlist's new contents in its place.
C23_Witness ==
    \E c, d \in CacheCallers :
        /\ calls[c].pc = "done" /\ calls[c].hit
        /\ calls[c].lookedAt - calls[c].seen.cachedAt = CACHE_TTL_MS
        /\ calls[d].pc = "done" /\ ~calls[d].hit /\ calls[d].result.ok
        /\ calls[d].seen = calls[c].seen
        /\ calls[d].lookedAt - calls[d].seen.cachedAt > CACHE_TTL_MS
        /\ calls[d].result.profile # calls[d].seen.profile
        /\ profileCache[calls[d].playlistId].present
        /\ profileCache[calls[d].playlistId].profile = calls[d].result.profile

\* Both calls have finished a build of the same playlist after a miss.
BothBuilt(c, d) ==
    /\ c # d
    /\ calls[c].pc = "done" /\ calls[d].pc = "done"
    /\ calls[c].playlistId = calls[d].playlistId
    /\ ~calls[c].hit /\ ~calls[d].hit
    /\ calls[c].result.ok /\ calls[d].result.ok

\* C24: the cache changes by whole entries only: an entry appears or is
\* replaced in the step that ends a build, and is then the complete profile
\* of the sample that build fetched; a build that fails writes nothing; every
\* other change is the removal of an entry.  When two calls that missed the
\* cache for the same playlist have both finished their build, the cache
\* holds the profile of the one that wrote last.
C24_WholeProfilesLastWriteWins ==
    [][/\ \A p \in Playlists :
              profileCache'[p] # profileCache[p] =>
                  \/ profileCache'[p] = NoEntry
                  \/ \E c \in CacheCallers :
                         /\ BuildSucceeds(c)
                         /\ calls[c].playlistId = p
                         /\ profileCache'[p] = BuiltEntry(c)
       /\ \A c \in CacheCallers :
              /\ BuildFails(c) => profileCache' = profileCache
              /\ BuildSucceeds(c) => profileCache'[calls[c].playlistId] = BuiltEntry(c)
       /\ \A c, d \in CacheCallers :
              (BothBuilt(c, d) /\ calls[c].latest) =>
                  /\ ~calls[d].latest
                  /\ profileCache[calls[c].playlistId].present
                  /\ profileCache[calls[c].playlistId].profile
                         = calls[c].result.profile]_vars

\* Two calls missed the cache of the same playlist before either had
\* written, fetched different samples, and both have written: the entry is
\* the profile of the later write and not that of the earlier one.
C24_Witness ==
    \E c, d \in CacheCallers :
        /\ BothBuilt(c, d)
        /\ ~calls[c].seen.present /\ ~calls[d].seen.present
        /\ calls[c].lookedAt = calls[d].lookedAt
        /\ calls[c].latest
        /\ calls[c].result.profile # calls[d].result.profile
        /\ profileCache[calls[c].playlistId].profile = calls[c].result.profile

\* The genres of a track: those of its artists.
GenresOf(t) == UNION {Range(ArtistGenres[a]) : a \in Range(TrackArtists[t])}

\* C25: in every profile buildPlaylistProfile builds, sampledCount is the
\* number of tracks the provider returned for the sample, the keys of genres
\* are the genres of the sampled tracks, and genres[g] is the number of
\* sampled tracks with the genre g, whatever the number of the track's
\* artists that carry it: 1 <= genres[g] <= sampledCount.
C25_GenreCountsPerTrack ==
    \A c \in DOMAIN calls :
        (calls[c].pc = "done" /\ ~calls[c].hit /\ calls[c].result.ok) =>
            /\ calls[c].result.profile.sampledCount = Len(calls[c].tracks)
            /\ DOMAIN calls[c].result.profile.genres
                   = UNION {GenresOf(calls[c].tracks[i]) : i \in DOMAIN calls[c].tracks}
            /\ \A g \in DOMAIN calls[c].result.profile.genres :
                   /\ calls[c].result.profile.genres[g]
                          = Cardinality({i \in DOMAIN calls[c].tracks :
                                            g \in GenresOf(calls[c].tracks[i])})
                   /\ calls[c].result.profile.genres[g] >= 1
                   /\ calls[c].result.profile.genres[g]
                          <= calls[c].result.profile.sampledCount

\* A profile was built from a sample of three tracks, one of them with two
\* artists that both carry the genre rock: rock counts two tracks, where
\* three artists of the sample carry it.
C25_Witness ==
    \E c \in DOMAIN calls :
        /\ calls[c].pc = "done" /\ ~calls[c].hit /\ calls[c].result.ok
        /\ "s3" \in Range(calls[c].tracks)
        /\ "s1" \in Range(calls[c].tracks)
        /\ calls[c].result.profile.genres["rock"] = 2
        /\ calls[c].result.profile.genres["jazz"] = 1
        /\ calls[c].result.profile.sampledCount = 3

\* The number of entries of the sequence es whose field named by pick is v.
Occurrences(es, pick(_), v) == Cardinality({i \in DOMAIN es : pick(es[i]) = v})

\* C27: matchSongsToPlaylists accounts for every fetched liked track exactly
\* once: each track has one entry in matches or one entry in unmatched, not
\* both and not neither, and the two lists together have as many entries as
\* tracks were fetched.
C27_EveryTrackOnce ==
    (lastRun.op = "match" /\ ~lastRun.failed) =>
        /\ Len(lastRun.matches) + Len(lastRun.unmatched) = Len(lastRun.songs)
        /\ \A i \in DOMAIN lastRun.songs :
               Occurrences(lastRun.matches, LAMBDA m : m.trackId, lastRun.songs[i].id)
               + Occurrences(lastRun.unmatched, LAMBDA x : x.trackName,
                             lastRun.songs[i].name)
                   = 1

\* A call with usable profiles fetched three liked tracks, matched some and
\* left some unmatched.
C27_Witness ==
    /\ lastRun.op = "match"
    /\ ~lastRun.failed
    /\ lastRun.profiles # <<>>
    /\ Len(lastRun.songs) = 3
    /\ lastRun.matches # <<>>
    /\ lastRun.unmatched # <<>>

\* C26: addTracksToPlaylist sends nothing for an empty list; otherwise every
\* request carries 1 to 100 URIs, the requests sent so far carry, in order,
\* a prefix of the list, a request is sent only when every earlier one has
\* succeeded, a call that ends without error has sent the whole list, and
\* a call that ends with an error has sent nothing after the failed request.
C26_ChunksInOrder ==
    calls.pc # "idle" =>
        /\ Len(calls.trackUris) = 0 =>
               (calls.submitted = <<>> /\ calls.pc = "done" /\ calls.result.ok)
        /\ \A k \in DOMAIN calls.submitted :
               Len(calls.submitted[k]) >= 1 /\ Len(calls.submitted[k]) <= ChunkSize
        /\ Flatten(calls.submitted)
               = SubSeq(calls.trackUris, 1, Len(Flatten(calls.submitted)))
        /\ calls.accepted
               = SubSeq(calls.submitted, 1, Len(calls.accepted))
        /\ calls.pc = "request" => Len(calls.submitted) = Len(calls.accepted) + 1
        /\ (calls.pc = "done" /\ calls.result.ok) =>
               /\ calls.accepted = calls.submitted
               /\ Flatten(calls.submitted) = calls.trackUris
        /\ (calls.pc = "done" /\ ~calls.result.ok) =>
               Len(calls.submitted) = Len(calls.accepted) + 1

\* A list of more than 200 URIs: the second request failed after the first
\* had succeeded, and the third chunk was never sent.
C26_Witness ==
    /\ calls.pc = "done"
    /\ ~calls.result.ok
    /\ Len(calls.trackUris) > 2 * ChunkSize
    /\ Len(calls.submitted) = 2
    /\ Len(calls.accepted) = 1
    /\ Len(calls.submitted[2]) = ChunkSize

\* runJob is in progress in the check k.
Running(k) ==
    calls[k].pc \in {"isAuthenticated", "disableJob", "autoOrganize", "updateNextRun"}

\* C28, as stated: CronRunner never runs the job of one user twice at the
\* same time: while runJob is in progress for a user, a later check does not
\* start runJob for that user.
C28_NoConcurrentRunOfAJob ==
    \A k1, k2 \in DOMAIN calls :
        (k1 # k2 /\ Running(k1) /\ Running(k2)) => calls[k1].job # calls[k2].job

\* Two checks are both in the work of the same user's job.
C28_Witness ==
    \E k1, k2 \in DOMAIN calls :
        /\ k1 # k2
        /\ calls[k1].pc = "autoOrganize"
        /\ calls[k2].pc = "autoOrganize"
        /\ calls[k1].job = calls[k2].job

\* C29, as stated: when runJob returns, the job is disabled or its nextRunAt
\* is later than the current time, so the job is not due.
C29_NotDueAfterRun ==
    \A k \in DOMAIN calls : calls[k].pc = "returned" => ~calls[k].dueAtReturn

\* runJob has returned for a job that was overdue by more than its interval:
\* the job is enabled and its next run is in the past.
C29_Witness ==
    \E k \in DOMAIN calls :
        /\ calls[k].pc = "returned"
        /\ calls[k].dueAtReturn
        /\ now = calls[k].returnedAt
        /\ jobs[calls[k].job].enabled
        /\ jobs[calls[k].job].nextRunAt < now
        /\ \A k2 \in DOMAIN calls : k2 # k => calls[k2].pc = "idle"

\* The consumeState calls that have returned the verifier of the state.
Consumed(state) ==
    {c \in DOMAIN calls : /\ calls[c].pc = "returned"
                          /\ calls[c].state = state
                          /\ calls[c].verifier # "null"}

\* C30, as stated: a saved OAuth state is used once: of the consumeState
\* calls for one state, in any interleaving, at most one returns the code
\* verifier.
C30_StateConsumedOnce == \A state \in OAuthStates : Cardinality(Consumed(state)) <= 1

\* Two callback requests have both obtained the verifier of one saved state.
C30_Witness ==
    \E c, d \in DOMAIN calls :
        /\ c # d
        /\ {c, d} \subseteq Consumed("st1")
        /\ calls[c].verifier = calls[d].verifier
        /\ oauth_states = {}
====
